---- MODULE Spec2Model ----
(***************************************************************************)
(* Model of the chat backend: the socket.io session router of index.js and *)
(* the AI takeover handler (aiChatHandler, functions/storeVecDb.js).       *)
(*                                                                         *)
(* JavaScript runs one handler at a time until its next `await`.  Every    *)
(* action below is one such run: the code that resumes after an await (or  *)
(* at the arrival of an event), up to and including the store operation    *)
(* it issues next.  A store operation takes effect when it is issued (the  *)
(* store serves operations in issue order, the assumption most favourable  *)
(* to the code); its result is kept in the handler's task record until the *)
(* handler resumes.  The MongoDB collections are connected and do not      *)
(* fail; the completion service may succeed or fail.                       *)
(***************************************************************************)
EXTENDS Integers, Sequences, FiniteSets, TLC

\* ---------------------------------------------------------------- bounds
MaxEvents == 4      \* events (connect, disconnect, message, ...) in a run

\* ------------------------------------------------------------- universes
None == "none"
Users == {"u1", "u2"}
OneUser == {"u1"}   \* the user of the single-conversation specification
Owners == {"A", "B"}
SockNames == <<"s1", "s2", "s3", "s4", "s5", "s6">>   \* socket.id values
Names == {"n"}      \* contact values (username, useremail, userphone)

VARIABLES
  socks,            \* every connection opened so far, by socket number
  users,            \* Map userId -> socket number (0: no entry)
  owners,           \* Map ownerUserId -> socket number (0: no entry)
  messagesBuffer,   \* Map userId -> buffered messages
  metadataBuffer,   \* Map userId -> { username, ownerId }
  chats,            \* MongoDB collection 'chats', one document per userId
  aiState,          \* MongoDB collection 'ai_chat_state'
  emitted,          \* every event delivered to a connection
  tasks,            \* handler invocations, in arrival order
  lastReset,        \* history: the user whose AI state the last step reset
  events,           \* history: number of events so far
  ownerDone,        \* history: an owner message was handled, no reset since
  ownerRec,         \* history: an owner message was recorded, no reset since
  rstDuring,        \* history: owner tasks during which a reset ran
  armed,            \* history: user messages that arrived under takeover
  rag,              \* the call of the Responder in progress
  split,            \* the last call of splitTextIntoChunks and its result
  now,              \* Date.now(), in milliseconds since process start
  qdrant,           \* the vector store: collection name -> collection
  ingests,          \* calls of storeTextResource, in arrival order
  kbCalls,          \* the last call of search, stats or delete, if any
  kbOps,            \* history: number of knowledge operations so far
  kmDocs,           \* MongoDB collections 'qna' and 'products'
  kmTasks,          \* calls of the knowledge manager, in arrival order
  qclient,          \* knowledgeManager.js: qdrantClient is set, per worker
  knowledgebase,    \* MongoDB collection 'knowledgebase', one document per owner
  webCalls,         \* requests of the website endpoints and their responses
  aiReads,          \* calls of shouldAiRespond and what they returned
  joined            \* socket.join(sid) of joinUser: << socket, room >>

\* the state of the website endpoints, the record of the state queries
\* and the rooms joined by joinUser
Aux == << knowledgebase, webCalls, aiReads, joined >>

\* the state of the knowledge ingestion and of the knowledge store
Knowledge == << split, now, qdrant, ingests, kbCalls, kbOps, kmDocs,
               kmTasks, qclient, Aux >>

vars == << socks, users, owners, messagesBuffer, metadataBuffer, chats,
           aiState, emitted, tasks, lastReset, events, ownerDone, ownerRec, rstDuring,
           armed, rag, Knowledge >>

\* ------------------------------------------------------------ documents
NoDoc == [has |-> FALSE, ownerId |-> None, username |-> None,
          conversation |-> << >>]
NoMeta == [has |-> FALSE, username |-> None, ownerId |-> None]
NoBuf == [has |-> FALSE, msgs |-> << >>]

Msg(from, id, ownerId, err) ==
  [from |-> from, id |-> id, ownerId |-> ownerId, err |-> err]

\* updateOne(..., { $set: { ownerId } }, { upsert: true })
SetOwner(doc, o) == [doc EXCEPT !.has = TRUE, !.ownerId = o]
\* an update that replaces the conversation by the new message
Push_Replace(doc, m) == [doc EXCEPT !.has = TRUE, !.conversation = << m >>]

\* updateOne(..., { $push: { conversation: m } }, { upsert: true })
Push(doc, m) == [doc EXCEPT !.has = TRUE, !.conversation = Append(@, m)]
\* updateOne(..., { $push }) without upsert: no document, no effect
PushNoUpsert(doc, m) == IF doc.has THEN Push(doc, m) ELSE doc

BufPush(buf, m) == [has |-> TRUE, msgs |-> Append(buf.msgs, m)]

Task(kind, pc, sock, uid) ==
  [kind |-> kind, pc |-> pc, sock |-> sock, uid |-> uid,
   tgt |-> None, docHas |-> FALSE, docOwner |-> None, docName |-> None,
   ownerId |-> None, name |-> None, aiOn |-> TRUE, gen |-> None,
   hadCh |-> FALSE, list |-> {}, pos |-> 0, cur |-> None, hist |-> << >>]

SockIds == 1..Len(socks)

\* the transport closes connection s; closedAt (history) is the number of
\* connections opened by then
Close(s) == [socks EXCEPT ![s].live = FALSE, ![s].closedAt = Len(socks)]

\* the live connections of owner o
OwnerChannels(o) ==
  {s \in SockIds : socks[s].role = "owner" /\ socks[s].owner = o
                   /\ socks[s].live}
TaskIds == 1..Len(tasks)

\* the task list with task t created or replaced
PutTask(t, tk) ==
  IF t > Len(tasks) THEN Append(tasks, tk) ELSE [tasks EXCEPT ![t] = tk]

\* ------------------------------------------------------------- emission
\* io.to(room).emit(...): the room of a socket id holds that socket and
\* the sockets that joined it (index.js 217-220), each while connected
Members(sid) ==
  {s \in SockIds : (s = sid \/ << s, sid >> \in joined) /\ socks[s].live}

Emit(sid, ev, from, uid, id, addr) ==
  {[to |-> s, ev |-> ev, from |-> from, uid |-> uid, id |-> id,
    addr |-> addr] : s \in Members(sid)}

OwnerHas(o) == o \in Owners /\ owners[o] # 0

\* a fallback that broadcasts to every owner connection
sendToOwnerOrBroadcast_Fallback(ownerUserId, ev, from, uid, id) ==
  IF ownerUserId # None /\ OwnerHas(ownerUserId)
    THEN Emit(owners[ownerUserId], ev, from, uid, id, ownerUserId)
    ELSE {[to |-> s, ev |-> ev, from |-> from, uid |-> uid, id |-> id,
           addr |-> ownerUserId] :
            s \in {x \in SockIds : socks[x].role = "owner" /\ socks[x].live}}

\* index.js 45-57
sendToOwnerOrBroadcast(ownerUserId, ev, from, uid, id) ==
  IF ownerUserId # None /\ OwnerHas(ownerUserId)
    THEN Emit(owners[ownerUserId], ev, from, uid, id, ownerUserId)
    ELSE {}

\* ------------------------------------------------------------- AI state
\* a state query that fails closed when no record exists
shouldAiRespond_FailClosed(userId) ==
  IF aiState[userId] = "absent" THEN FALSE ELSE aiState[userId] # "false"

\* storeVecDb.js 56-73
shouldAiRespond(userId) ==
  IF aiState[userId] = "absent" THEN TRUE ELSE aiState[userId] # "false"

\* an upsert that drops the value it is given
setAiState_Dropped(st, userId, isActive) ==
  [st EXCEPT ![userId] = "true"]

\* storeVecDb.js 80-98
setAiState(st, userId, isActive) ==
  [st EXCEPT ![userId] = IF isActive THEN "true" ELSE "false"]

\* ------------------------------------------------------------- Responder
MaxRecords == 4     \* records in the namespace of an owner
MaxHistory == 12    \* messages in the stored conversation
Limit == 3          \* searchOwnerKnowledge(ownerId, query, limit = 3)
Texts == {"txtA", "txtB"}            \* texts of the completion service
Apology == "I apologize"             \* storeVecDb.js 208
KbFlag == "Could not access knowledge base"   \* aiResponse.js 223

NoResult == [has |-> FALSE, response |-> None, contextUsed |-> FALSE,
             sources |-> << >>, error |-> None]
NoReply == [has |-> FALSE, from |-> None, text |-> None, hasContext |-> FALSE,
            contextUsed |-> FALSE, sources |-> << >>, error |-> FALSE]

\* `owner_${ownerId}_knowledge` (scraping.js 339, 545, 563; aiResponse.js
\* 60; knowledgeManager.js 64, 181, 302)
CollectionName(ownerId) == "owner_" \o ownerId \o "_knowledge"
Collections == {CollectionName(o) : o \in Owners}
\* the processes of the server: instances: 2, exec_mode: 'cluster'
\* (ecosystem.config.js 6-7); each loads its own knowledgeManager.js
Workers == {1, 2}
\* a collection the vector store does not hold
NoCollection == [exists |-> FALSE, points |-> {}]

\* an owner without a document in 'knowledgebase'
NoSettings == [has |-> FALSE, companyWebsite |-> None]

\* splitTextIntoChunks was not called yet
NoSplit == [len |-> 0, chunks |-> << >>]

\* no call of the Responder in progress
RagIdle ==
  [pc |-> "idle", ownerId |-> None, ns |-> [exists |-> FALSE, count |-> 0],
   turns |-> 0, website |-> None, ctx |-> << >>,
   embedCalls |-> 0, searchCalls |-> 0, completeCalls |-> 0,
   eOut |-> None, sOut |-> None, gOut |-> None, fOut |-> None,
   gText |-> None, gCtx |-> << >>, gTurns |-> 0, fellBack |-> FALSE,
   aiOut |-> None, hOut |-> None, pOut |-> None,
   result |-> NoResult, reply |-> NoReply]

\* ------------------------------------------------------------------ Init
Init ==
  /\ socks = << >>
  /\ users = [u \in Users |-> 0]
  /\ owners = [o \in Owners |-> 0]
  /\ messagesBuffer = [u \in Users |-> NoBuf]
  /\ metadataBuffer = [u \in Users |-> NoMeta]
  /\ chats = [u \in Users |-> NoDoc]
  /\ aiState = [u \in Users |-> "absent"]
  /\ emitted = {}
  /\ tasks = << >>
  /\ lastReset = None
  /\ events = 0
  /\ ownerDone = [u \in Users |-> FALSE]
  /\ ownerRec = [u \in Users |-> FALSE]
  /\ rstDuring = {}
  /\ armed = {}
  /\ rag = RagIdle
  /\ split = NoSplit
  /\ now = 0
  /\ qdrant = [c \in Collections |-> NoCollection]
  /\ ingests = << >>
  /\ kbCalls = << >>
  /\ kbOps = 0
  /\ kmDocs = {}
  /\ kmTasks = << >>
  /\ qclient = [w \in Workers |-> FALSE]
  /\ knowledgebase = [o \in Owners |-> NoSettings]
  /\ webCalls = << >>
  /\ aiReads = << >>
  /\ joined = {}

Ghosts == << ownerDone, ownerRec, rstDuring, armed >>

\* ------------------------------------------------------ owner connection
OwnerConnect(o) ==
  /\ events < MaxEvents
  /\ socks' = Append(socks, [role |-> "owner", uid |-> None, owner |-> o,
                             live |-> TRUE, ready |-> TRUE, closedAt |-> 0])
  /\ owners' = IF o # None THEN [owners EXCEPT ![o] = Len(socks) + 1]
                           ELSE owners
  /\ lastReset' = None
  /\ events' = events + 1
  /\ rag' = rag
  /\ UNCHANGED Knowledge
  /\ UNCHANGED << users, messagesBuffer, metadataBuffer, chats, aiState,
                  emitted, tasks, Ghosts >>

\* a disconnect that deletes the registration without comparing socket ids
OwnerDisconnect_Unguarded(s) ==
  /\ events < MaxEvents
  /\ socks[s].role = "owner" /\ socks[s].live
  /\ socks' = Close(s)
  /\ owners' = IF socks[s].owner # None
                 THEN [owners EXCEPT ![socks[s].owner] = 0]
                 ELSE owners
  /\ lastReset' = None
  /\ events' = events + 1
  /\ rag' = rag
  /\ UNCHANGED Knowledge
  /\ UNCHANGED << users, messagesBuffer, metadataBuffer, chats, aiState,
                  emitted, tasks, Ghosts >>

\* index.js 94-97
OwnerDisconnect(s) ==
  /\ events < MaxEvents
  /\ socks[s].role = "owner" /\ socks[s].live
  /\ socks' = Close(s)
  /\ owners' = IF socks[s].owner # None /\ owners[socks[s].owner] = s
                 THEN [owners EXCEPT ![socks[s].owner] = 0]
                 ELSE owners
  /\ lastReset' = None
  /\ events' = events + 1
  /\ rag' = rag
  /\ UNCHANGED Knowledge
  /\ UNCHANGED << users, messagesBuffer, metadataBuffer, chats, aiState,
                  emitted, tasks, Ghosts >>

\* ------------------------------------------------------- user connection
\* priority of the owner sources known without a store read
\* the cached assignment taking priority over the declared owner id
ResolveOwner_CacheFirst(declared, cached) ==
  IF cached # None THEN cached ELSE declared

\* index.js 232-237 and 333-338
ResolveOwner(declared, cached) ==
  IF declared # None THEN declared ELSE cached

\* index.js 222-259 up to the first await
UserConnect(u, declared) ==
  LET s == Len(socks) + 1
      t == Len(tasks) + 1
      tgt == ResolveOwner(declared, metadataBuffer[u].ownerId)
      tk == Task("conn", "connLookup", s, u)
  IN
  /\ events < MaxEvents
  /\ socks' = Append(socks, [role |-> "user", uid |-> u, owner |-> declared,
                             live |-> TRUE, ready |-> FALSE, closedAt |-> 0])
  /\ users' = [users EXCEPT ![u] = s]
  /\ messagesBuffer' = IF messagesBuffer[u].has THEN messagesBuffer
                       ELSE [messagesBuffer EXCEPT ![u] =
                               [has |-> TRUE, msgs |-> << >>]]
  /\ IF tgt = None
       THEN \* await chatsCollection.findOne({ userId: uid })
            /\ tasks' = Append(tasks,
                 [tk EXCEPT !.docHas = chats[u].has,
                            !.docOwner = chats[u].ownerId])
            /\ chats' = chats
       ELSE \* await chatsCollection.updateOne(... $set: { ownerId })
            /\ tasks' = Append(tasks, [tk EXCEPT !.pc = "connSave",
                                                 !.tgt = tgt])
            /\ chats' = [chats EXCEPT ![u] = SetOwner(@, tgt)]
  /\ lastReset' = None
  /\ events' = events + 1
  /\ rag' = rag
  /\ UNCHANGED Knowledge
  /\ UNCHANGED << owners, metadataBuffer, aiState, emitted, Ghosts >>

\* index.js 242-259: the lookup returned
UserConnResolved(t) ==
  LET tk == tasks[t]
      u == tk.uid
      tgt == tk.docOwner
  IN
  /\ tk.kind = "conn" /\ tk.pc = "connLookup"
  /\ IF tgt # None
       THEN /\ tasks' = [tasks EXCEPT ![t].pc = "connSave", ![t].tgt = tgt]
            /\ chats' = [chats EXCEPT ![u] = SetOwner(@, tgt)]
            /\ socks' = socks
       ELSE \* no owner: nothing saved, nobody notified, handlers registered
            /\ tasks' = [tasks EXCEPT ![t].pc = "done"]
            /\ chats' = chats
            /\ socks' = [socks EXCEPT ![tk.sock].ready = TRUE]
  /\ lastReset' = None
  /\ events' = events
  /\ rag' = rag
  /\ UNCHANGED Knowledge
  /\ UNCHANGED << users, owners, messagesBuffer, metadataBuffer, aiState,
                  emitted, Ghosts >>

\* index.js 261-269, then the handlers of lines 271-500 are registered
UserConnNotify(t) ==
  LET tk == tasks[t]
      u == tk.uid
  IN
  /\ tk.kind = "conn" /\ tk.pc = "connSave"
  /\ emitted' = emitted \cup
       sendToOwnerOrBroadcast(tk.tgt, "user:connected", None, u, t)
  /\ tasks' = [tasks EXCEPT ![t].pc = "done"]
  /\ socks' = [socks EXCEPT ![tk.sock].ready = TRUE]
  /\ lastReset' = None
  /\ events' = events
  /\ rag' = rag
  /\ UNCHANGED Knowledge
  /\ UNCHANGED << users, owners, messagesBuffer, metadataBuffer, chats,
                  aiState, Ghosts >>

\* ----------------------------------------------------- user disconnect
\* index.js 299-301: the ownerId of the last buffered owner message
LastOwnerInBuffer(msgs) ==
  LET I == {i \in 1..Len(msgs) :
              msgs[i].from = "owner" /\ msgs[i].ownerId # None}
  IN IF I = {} THEN None
     ELSE msgs[CHOOSE i \in I : \A j \in I : j <= i].ownerId

\* index.js 285-321: notify the owner, then write metadata and lastSeen
DiscSave(t, tk, notifyOwner) ==
  LET u == tk.uid
      meta == metadataBuffer[u]
      conv == messagesBuffer[u].msgs
      ownerId == IF meta.ownerId # None THEN meta.ownerId
                 ELSE LastOwnerInBuffer(conv)
  IN
  /\ emitted' = emitted \cup
       sendToOwnerOrBroadcast(notifyOwner, "user:disconnected", None, u, t)
  /\ chats' = [chats EXCEPT ![u] = [@ EXCEPT !.has = TRUE,
                                            !.ownerId = ownerId,
                                            !.username = meta.username]]
  /\ tasks' = PutTask(t, [tk EXCEPT !.pc = "discSave"])

\* users.delete(uid) of index.js 272
UsersDelete(s, u) == [users EXCEPT ![u] = 0]

\* index.js 271-284: the 'disconnect' handler of a user connection
UserDisconnect(s) ==
  LET u == socks[s].uid
      t == Len(tasks) + 1
      tk == Task("disc", "discLookup", s, u)
      notifyOwner == metadataBuffer[u].ownerId
  IN
  /\ events < MaxEvents
  /\ socks[s].role = "user" /\ socks[s].live /\ socks[s].ready
  /\ socks' = Close(s)
  /\ users' = UsersDelete(s, u)
  /\ IF notifyOwner = None
       THEN \* await chatsCollection.findOne({ userId: uid })
            /\ tasks' = Append(tasks, [tk EXCEPT !.docHas = chats[u].has,
                                                 !.docOwner = chats[u].ownerId])
            /\ UNCHANGED << emitted, chats >>
       ELSE DiscSave(t, tk, notifyOwner)
  /\ lastReset' = None
  /\ events' = events + 1
  /\ rag' = rag
  /\ UNCHANGED Knowledge
  /\ UNCHANGED << owners, messagesBuffer, metadataBuffer, aiState, Ghosts >>

UserDiscResolved(t) ==
  LET tk == tasks[t]
  IN
  /\ tk.kind = "disc" /\ tk.pc = "discLookup"
  /\ DiscSave(t, tk, tk.docOwner)
  /\ lastReset' = None
  /\ events' = events
  /\ rag' = rag
  /\ UNCHANGED Knowledge
  /\ UNCHANGED << socks, users, owners, messagesBuffer, metadataBuffer,
                  aiState, Ghosts >>

\* index.js 323-324
UserDiscFinish(t) ==
  LET tk == tasks[t]
      u == tk.uid
  IN
  /\ tk.kind = "disc" /\ tk.pc = "discSave"
  /\ messagesBuffer' = [messagesBuffer EXCEPT ![u] = NoBuf]
  /\ metadataBuffer' = [metadataBuffer EXCEPT ![u] = NoMeta]
  /\ tasks' = [tasks EXCEPT ![t].pc = "done"]
  /\ lastReset' = None
  /\ events' = events
  /\ rag' = rag
  /\ UNCHANGED Knowledge
  /\ UNCHANGED << socks, users, owners, chats, aiState, emitted, Ghosts >>

\* a user connection that closes before index.js 271 has registered its
\* 'disconnect' handler: no handler runs
UserDrop(s) ==
  /\ events < MaxEvents
  /\ socks[s].role = "user" /\ socks[s].live /\ ~socks[s].ready
  /\ socks' = Close(s)
  /\ lastReset' = None
  /\ events' = events + 1
  /\ rag' = rag
  /\ UNCHANGED Knowledge
  /\ UNCHANGED << users, owners, messagesBuffer, metadataBuffer, chats,
                  aiState, emitted, tasks, Ghosts >>

\* --------------------------------------------------------- setMetadata
\* index.js 463-480: socket 'setMetadata', up to the await of updateOne
SetMetadata(s, u, name, ownerId) ==
  LET t == Len(tasks) + 1
      meta == [has |-> TRUE, username |-> name, ownerId |-> ownerId]
  IN
  /\ events < MaxEvents
  /\ socks[s].live /\ socks[s].ready
  /\ metadataBuffer' = [metadataBuffer EXCEPT ![u] = meta]
  /\ chats' = [chats EXCEPT ![u] = [@ EXCEPT !.has = TRUE,
                                            !.username = name,
                                            !.ownerId = ownerId]]
  /\ tasks' = PutTask(t, [Task("meta", "metaSave", 0, u)
                            EXCEPT !.ownerId = ownerId, !.name = name])
  /\ lastReset' = None
  /\ events' = events + 1
  /\ rag' = rag
  /\ UNCHANGED Knowledge
  /\ UNCHANGED << socks, users, owners, messagesBuffer, aiState, emitted,
                  Ghosts >>

\* index.js 490-498
SetMetadataNotify(t) ==
  LET tk == tasks[t]
  IN
  /\ tk.kind = "meta" /\ tk.pc = "metaSave"
  /\ emitted' = emitted \cup
       sendToOwnerOrBroadcast(tk.ownerId, "metadata:updated", None, tk.uid, t)
  /\ tasks' = [tasks EXCEPT ![t].pc = "done"]
  /\ lastReset' = None
  /\ events' = events
  /\ rag' = rag
  /\ UNCHANGED Knowledge
  /\ UNCHANGED << socks, users, owners, messagesBuffer, metadataBuffer,
                  chats, aiState, Ghosts >>

\* -------------------------------------------------------- owner message
\* the ownerId an owner connection stamps on its messages (index.js 175)
StampOf(s) == IF socks[s].owner # None THEN socks[s].owner ELSE SockNames[s]

\* index.js 158-166: the owner 'message' handler up to handleAdminMessage,
\* whose setAiState(uid, false) is issued
OwnerMessage(s, u) ==
  LET t == Len(tasks) + 1
  IN
  /\ events < MaxEvents
  /\ socks[s].role = "owner" /\ socks[s].live
  /\ aiState' = setAiState(aiState, u, FALSE)
  /\ tasks' = PutTask(t, Task("omsg", "deact", s, u))
  /\ lastReset' = None
  /\ events' = events + 1
  /\ rag' = rag
  /\ UNCHANGED Knowledge
  /\ UNCHANGED << socks, users, owners, messagesBuffer, metadataBuffer,
                  chats, emitted, Ghosts >>

\* a handler that records a message only when it could be forwarded
OwnerMsgRecord_LiveOnly(t) ==
  LET tk == tasks[t]
      u == tk.uid
      msgObj == Msg("owner", t, StampOf(tk.sock), FALSE)
  IN
  /\ tk.kind = "omsg" /\ tk.pc = "deact"
  /\ emitted' = emitted \cup Emit(users[u], "message", "owner", u, t, u)
  /\ messagesBuffer' = [messagesBuffer EXCEPT ![u] = BufPush(@, msgObj)]
  /\ chats' = IF Members(users[u]) # {}
                THEN [chats EXCEPT ![u] =
                        Push(SetOwner(@, StampOf(tk.sock)), msgObj)]
                ELSE chats
  /\ tasks' = [tasks EXCEPT ![t].pc = "oAppend",
                            ![t].hadCh = (Members(users[u]) # {})]
  /\ ownerRec' = [ownerRec EXCEPT ![u] = TRUE]
  /\ lastReset' = None
  /\ events' = events
  /\ rag' = rag
  /\ UNCHANGED Knowledge
  /\ UNCHANGED << socks, users, owners, metadataBuffer, aiState, ownerDone,
                  rstDuring, armed >>

\* index.js 172-197: forward to the user, buffer, append to the document
OwnerMsgRecord(t) ==
  LET tk == tasks[t]
      u == tk.uid
      msgObj == Msg("owner", t, StampOf(tk.sock), FALSE)
  IN
  /\ tk.kind = "omsg" /\ tk.pc = "deact"
  /\ emitted' = emitted \cup Emit(users[u], "message", "owner", u, t, u)
  /\ messagesBuffer' = [messagesBuffer EXCEPT ![u] = BufPush(@, msgObj)]
  /\ chats' = [chats EXCEPT ![u] = Push(SetOwner(@, StampOf(tk.sock)), msgObj)]
  /\ tasks' = [tasks EXCEPT ![t].pc = "oAppend",
                            ![t].hadCh = (Members(users[u]) # {})]
  /\ ownerRec' = [ownerRec EXCEPT ![u] = TRUE]
  /\ lastReset' = None
  /\ events' = events
  /\ rag' = rag
  /\ UNCHANGED Knowledge
  /\ UNCHANGED << socks, users, owners, metadataBuffer, aiState, ownerDone,
                  rstDuring, armed >>

OwnerMsgDone(t, u) ==
  ownerDone' = [ownerDone EXCEPT ![u] = IF t \in rstDuring THEN @ ELSE TRUE]

\* index.js 200-211: echo to the owner of the chat
OwnerMsgNotify(t) ==
  LET tk == tasks[t]
      u == tk.uid
      ownerUserId == socks[tk.sock].owner
  IN
  /\ tk.kind = "omsg" /\ tk.pc = "oAppend"
  /\ IF ownerUserId # None
       THEN /\ emitted' = emitted \cup
                 sendToOwnerOrBroadcast(ownerUserId, "message", "owner", u, t)
            /\ tasks' = [tasks EXCEPT ![t].pc = "done"]
            /\ OwnerMsgDone(t, u)
       ELSE \* await chatsCollection.findOne({ userId: uid })
            /\ tasks' = [tasks EXCEPT ![t].pc = "oLookup",
                                      ![t].docHas = chats[u].has,
                                      ![t].docOwner = chats[u].ownerId]
            /\ UNCHANGED << emitted, ownerDone >>
  /\ lastReset' = None
  /\ events' = events
  /\ rag' = rag
  /\ UNCHANGED Knowledge
  /\ UNCHANGED << socks, users, owners, messagesBuffer, metadataBuffer,
                  chats, aiState, ownerRec, rstDuring, armed >>

OwnerMsgNotifyResolved(t) ==
  LET tk == tasks[t]
      u == tk.uid
  IN
  /\ tk.kind = "omsg" /\ tk.pc = "oLookup"
  /\ emitted' = emitted \cup
       sendToOwnerOrBroadcast(tk.docOwner, "message", "owner", u, t)
  /\ tasks' = [tasks EXCEPT ![t].pc = "done"]
  /\ OwnerMsgDone(t, u)
  /\ lastReset' = None
  /\ events' = events
  /\ rag' = rag
  /\ UNCHANGED Knowledge
  /\ UNCHANGED << socks, users, owners, messagesBuffer, metadataBuffer,
                  chats, aiState, ownerRec, rstDuring, armed >>

\* ---------------------------------------------------------------- reset
\* index.js 643-652: POST /api/ai/reset/:userId -> resetAiForUser
ResetAi(u) ==
  /\ events < MaxEvents
  /\ aiState' = setAiState(aiState, u, TRUE)
  /\ ownerDone' = [ownerDone EXCEPT ![u] = FALSE]
  /\ ownerRec' = [ownerRec EXCEPT ![u] = FALSE]
  /\ rstDuring' = rstDuring \cup
       {t \in TaskIds : tasks[t].kind = "omsg" /\ tasks[t].uid = u
                        /\ tasks[t].pc # "done"}
  /\ armed' = {t \in armed : tasks[t].uid # u}
  /\ lastReset' = u
  /\ events' = events + 1
  /\ rag' = rag
  /\ UNCHANGED Knowledge
  /\ UNCHANGED << socks, users, owners, messagesBuffer, metadataBuffer,
                  chats, emitted, tasks >>

\* --------------------------------------------------------- user message
HasContact(meta) == meta.username # None

\* index.js 373-408: forward to the owner, buffer, append to the document
UMsgAppend(t, tk, tgt, mb) ==
  LET u == tk.uid
      msgObj == Msg("user", t, None, FALSE)
  IN
  /\ metadataBuffer' = mb
  /\ emitted' = emitted \cup
       sendToOwnerOrBroadcast(tgt, "message", "user", u, t)
  /\ messagesBuffer' = [messagesBuffer EXCEPT ![u] = BufPush(@, msgObj)]
  /\ chats' = [chats EXCEPT ![u] = Push(SetOwner(@, tgt), msgObj)]
  /\ tasks' = PutTask(t, [tk EXCEPT !.pc = "mAppend", !.tgt = tgt,
                                    !.hadCh = (OwnerChannels(tgt) # {})])

\* index.js 349-371: load the contact metadata when the buffer has none
UMsgLoadMeta(t, tk, tgt) ==
  LET u == tk.uid
  IN
  IF tgt # None /\ ~HasContact(metadataBuffer[u])
    THEN \* await chatsCollection.findOne({ userId: uid })
         /\ tasks' = PutTask(t, [tk EXCEPT !.pc = "mMeta", !.tgt = tgt,
                                           !.docHas = chats[u].has,
                                           !.docOwner = chats[u].ownerId,
                                           !.docName = chats[u].username])
         /\ UNCHANGED << metadataBuffer, emitted, messagesBuffer, chats >>
    ELSE UMsgAppend(t, tk, tgt, metadataBuffer)

\* index.js 328-345: the user 'message' handler up to its first await
UserMessage(s) ==
  LET u == socks[s].uid
      t == Len(tasks) + 1
      tk == Task("umsg", "mLookup", s, u)
      tgt == ResolveOwner(socks[s].owner, metadataBuffer[u].ownerId)
  IN
  /\ events < MaxEvents
  /\ socks[s].role = "user" /\ socks[s].live /\ socks[s].ready
  /\ IF tgt = None
       THEN \* await chatsCollection.findOne({ userId: uid })
            /\ tasks' = PutTask(t, [tk EXCEPT !.docHas = chats[u].has,
                                              !.docOwner = chats[u].ownerId])
            /\ UNCHANGED << metadataBuffer, emitted, messagesBuffer, chats >>
       ELSE UMsgLoadMeta(t, tk, tgt)
  /\ armed' = IF ownerDone[u] THEN armed \cup {t} ELSE armed
  /\ lastReset' = None
  /\ events' = events + 1
  /\ rag' = rag
  /\ UNCHANGED Knowledge
  /\ UNCHANGED << socks, users, owners, aiState, ownerDone, ownerRec,
                  rstDuring >>

UMsgOwnerResolved(t) ==
  LET tk == tasks[t]
  IN
  /\ tk.kind = "umsg" /\ tk.pc = "mLookup"
  /\ UMsgLoadMeta(t, tk, tk.docOwner)
  /\ lastReset' = None
  /\ events' = events
  /\ rag' = rag
  /\ UNCHANGED Knowledge
  /\ UNCHANGED << socks, users, owners, aiState, Ghosts >>

UMsgMetaLoaded(t) ==
  LET tk == tasks[t]
      u == tk.uid
      mb == IF tk.docHas
              THEN [metadataBuffer EXCEPT ![u] =
                      [has |-> TRUE, username |-> tk.docName,
                       ownerId |-> tk.docOwner]]
              ELSE metadataBuffer
  IN
  /\ tk.kind = "umsg" /\ tk.pc = "mMeta"
  /\ UMsgAppend(t, tk, tk.tgt, mb)
  /\ lastReset' = None
  /\ events' = events
  /\ rag' = rag
  /\ UNCHANGED Knowledge
  /\ UNCHANGED << socks, users, owners, aiState, Ghosts >>

\* a responder that serves one message at a time
UMsgAiCheck_Serialized(t) ==
  LET tk == tasks[t]
  IN
  /\ tk.kind = "umsg" /\ tk.pc = "mAppend"
  /\ ~\E x \in TaskIds : /\ tasks[x].kind = "umsg"
                          /\ tasks[x].pc \in {"aiCheck", "aiHist", "aiStore"}
  /\ tasks' = [tasks EXCEPT ![t].pc = "aiCheck",
                            ![t].aiOn = shouldAiRespond(tk.uid)]
  /\ lastReset' = None
  /\ events' = events
  /\ rag' = rag
  /\ UNCHANGED Knowledge
  /\ UNCHANGED << socks, users, owners, messagesBuffer, metadataBuffer,
                  chats, aiState, emitted, Ghosts >>

\* index.js 414 -> processUserMessage, storeVecDb.js 150: shouldAiRespond
UMsgAiCheck(t) ==
  LET tk == tasks[t]
  IN
  /\ tk.kind = "umsg" /\ tk.pc = "mAppend"
  /\ tasks' = [tasks EXCEPT ![t].pc = "aiCheck",
                            ![t].aiOn = shouldAiRespond(tk.uid)]
  /\ lastReset' = None
  /\ events' = events
  /\ rag' = rag
  /\ UNCHANGED Knowledge
  /\ UNCHANGED << socks, users, owners, messagesBuffer, metadataBuffer,
                  chats, aiState, emitted, Ghosts >>

\* storeVecDb.js 122-138: conversation.slice(-limit)
SliceLast(conv, limit) ==
  IF Len(conv) <= limit THEN conv
  ELSE SubSeq(conv, Len(conv) - limit + 1, Len(conv))

\* storeVecDb.js 152-158: return null, or read the conversation history
UMsgAiHistory(t) ==
  LET tk == tasks[t]
  IN
  /\ tk.kind = "umsg" /\ tk.pc = "aiCheck"
  /\ tasks' = [tasks EXCEPT
       ![t].pc = IF tk.aiOn THEN "aiHist" ELSE "done",
       ![t].hist = IF tk.aiOn
                     THEN SliceLast(chats[tk.uid].conversation, 10)
                     ELSE << >>]
  /\ lastReset' = None
  /\ events' = events
  /\ rag' = rag
  /\ UNCHANGED Knowledge
  /\ UNCHANGED << socks, users, owners, messagesBuffer, metadataBuffer,
                  chats, aiState, emitted, Ghosts >>

\* index.js 416-449: emit the AI message to user and owner, buffer, persist
UMsgAiDeliver(t, tk, gen) ==
  LET u == tk.uid
      aiResponse == Msg("ai", t, None, gen = "fail")
  IN
  /\ emitted' = emitted
       \cup Emit(users[u], "message", "ai", u, t, u)
       \cup (IF tk.tgt # None
               THEN sendToOwnerOrBroadcast(tk.tgt, "message", "ai", u, t)
               ELSE {})
  /\ messagesBuffer' = [messagesBuffer EXCEPT ![u] = BufPush(@, aiResponse)]
  /\ chats' = [chats EXCEPT ![u] = Push(SetOwner(@, tk.tgt), aiResponse)]
  /\ tasks' = [tasks EXCEPT ![t] = [tk EXCEPT !.pc = "done",
                                              !.gen = gen]]

\* storeVecDb.js 162-213: the history is back and the Responder is called;
\* it returns (ok) or throws (fail)
UMsgAiGenerated(t, gen) ==
  LET tk == tasks[t]
      u == tk.uid
  IN
  /\ tk.kind = "umsg" /\ tk.pc = "aiHist"
  /\ IF gen = "ok"
       THEN \* await chatsCollection.updateOne({ userId }, { $push })
            /\ chats' = [chats EXCEPT ![u] =
                           PushNoUpsert(@, Msg("ai", t, None, FALSE))]
            /\ tasks' = [tasks EXCEPT ![t].pc = "aiStore", ![t].gen = gen]
            /\ UNCHANGED << emitted, messagesBuffer >>
       ELSE \* catch: the apologetic message is returned to index.js
            UMsgAiDeliver(t, tk, gen)
  /\ lastReset' = None
  /\ events' = events
  /\ rag' = rag
  /\ UNCHANGED Knowledge
  /\ UNCHANGED << socks, users, owners, metadataBuffer, aiState, Ghosts >>

UMsgAiStored(t) ==
  LET tk == tasks[t]
  IN
  /\ tk.kind = "umsg" /\ tk.pc = "aiStore"
  /\ UMsgAiDeliver(t, tk, tk.gen)
  /\ lastReset' = None
  /\ events' = events
  /\ rag' = rag
  /\ UNCHANGED Knowledge
  /\ UNCHANGED << socks, users, owners, metadataBuffer, aiState, Ghosts >>

\* ------------------------------------------------------------------ Next
Next ==
  \/ \E o \in Owners \cup {None} : OwnerConnect(o)
  \/ \E s \in SockIds : OwnerDisconnect(s)
  \/ \E u \in OneUser, d \in Owners \cup {None} : UserConnect(u, d)
  \/ \E t \in TaskIds : UserConnResolved(t)
  \/ \E t \in TaskIds : UserConnNotify(t)
  \/ \E s \in SockIds : UserDisconnect(s)
  \/ \E t \in TaskIds : UserDiscResolved(t)
  \/ \E t \in TaskIds : UserDiscFinish(t)
  \/ \E s \in SockIds : UserDrop(s)
  \/ \E s \in SockIds, u \in OneUser, n \in Names \cup {None},
        o \in Owners \cup {None} : SetMetadata(s, u, n, o)
  \/ \E t \in TaskIds : SetMetadataNotify(t)
  \/ \E s \in SockIds, u \in OneUser : OwnerMessage(s, u)
  \/ \E t \in TaskIds : OwnerMsgRecord(t)
  \/ \E t \in TaskIds : OwnerMsgNotify(t)
  \/ \E t \in TaskIds : OwnerMsgNotifyResolved(t)
  \/ \E u \in OneUser : ResetAi(u)
  \/ \E s \in SockIds : UserMessage(s)
  \/ \E t \in TaskIds : UMsgOwnerResolved(t)
  \/ \E t \in TaskIds : UMsgMetaLoaded(t)
  \/ \E t \in TaskIds : UMsgAiCheck(t)
  \/ \E t \in TaskIds : UMsgAiHistory(t)
  \/ \E t \in TaskIds, g \in {"ok", "fail"} : UMsgAiGenerated(t, g)
  \/ \E t \in TaskIds : UMsgAiStored(t)

Spec == Init /\ [][Next]_vars

\* =============================================================== claims
isAiAuthoritative(u) == shouldAiRespond(u)

Conv(u) == chats[u].conversation
Entries(u, from, id) ==
  {i \in 1..Len(Conv(u)) : Conv(u)[i].from = from /\ Conv(u)[i].id = id}
HasOwnerMsg(u) == \E i \in 1..Len(Conv(u)) : Conv(u)[i].from = "owner"
UserSocks(u) == {s \in SockIds : socks[s].role = "user" /\ socks[s].uid = u}
OwnerSocks(o) == {s \in SockIds : socks[s].role = "owner" /\ socks[s].owner = o}
Latest(S) == CHOOSE s \in S : \A x \in S : x <= s
\* the task created by this step is of kind k for user u
Arrives(k, u) ==
  /\ Len(tasks') = Len(tasks) + 1
  /\ tasks'[Len(tasks')].kind = k /\ tasks'[Len(tasks')].uid = u

C3_NoCrossOwnerDelivery ==
  /\ \A e \in emitted :
       e.addr \in Owners =>
         socks[e.to].role = "owner" /\ socks[e.to].owner = e.addr
  /\ \A t \in TaskIds :
       (/\ tasks[t].kind = "umsg"
        /\ tasks[t].pc \notin {"mLookup", "mMeta"}
        /\ tasks[t].tgt # None /\ ~tasks[t].hadCh) =>
          /\ ~\E e \in emitted : e.from = "user" /\ e.id = t
          /\ Entries(tasks[t].uid, "user", t) # {}

\* the user's owner is not connected, another owner is, and the message has
\* been appended
C3_Witness ==
  \E t \in TaskIds :
    /\ tasks[t].kind = "umsg" /\ tasks[t].pc = "done"
    /\ tasks[t].tgt \in Owners /\ ~tasks[t].hadCh
    /\ \E o \in Owners \ {tasks[t].tgt} : OwnerHas(o)
    /\ Entries(tasks[t].uid, "user", t) # {}

\* C4: a handled user message whose generation succeeded has exactly one
\* entry of its own and exactly one AI entry in the durable conversation.
C4_PersistedExactlyOnce ==
  \A t \in TaskIds :
    (tasks[t].kind = "umsg" /\ tasks[t].pc = "done" /\ tasks[t].gen = "ok") =>
      /\ Cardinality(Entries(tasks[t].uid, "user", t)) = 1
      /\ Cardinality(Entries(tasks[t].uid, "ai", t)) = 1

\* C5: two messages of one user connection are in the durable conversation
\* in their arrival order, and a handled message is in the conversation.
C5_ArrivalOrderKept ==
  \A u \in Users :
    /\ \A i, j \in 1..Len(Conv(u)) :
         (/\ i < j
          /\ Conv(u)[i].from = "user" /\ Conv(u)[j].from = "user"
          /\ tasks[Conv(u)[i].id].sock = tasks[Conv(u)[j].id].sock) =>
            Conv(u)[i].id < Conv(u)[j].id
    /\ \A t \in TaskIds :
         (tasks[t].kind = "umsg" /\ tasks[t].uid = u /\ tasks[t].pc = "done")
           => Entries(u, "user", t) # {}

\* C6: while an owner message is in the conversation and no reset ran after
\* it was recorded, the AI state of the user is human-active.
C6_TakeoverVisible ==
  \A u \in Users : ownerRec[u] => ~isAiAuthoritative(u)

\* C7: a user whose history holds only its own connects, messages and
\* disconnects, none declaring an owner other than A, and who connected
\* declaring A, is assigned to A in the durable record.
C7_StickyAssignment ==
  \A u \in Users, a \in Owners :
    (/\ \A t \in TaskIds :
          tasks[t].uid = u => tasks[t].kind \in {"conn", "umsg", "disc"}
     /\ \E s \in UserSocks(u) : socks[s].owner = a
     /\ \A s \in UserSocks(u) : socks[s].owner \in {None, a}) =>
       chats[u].ownerId = a

\* C8: while the newest connection of a user is open, the user id is
\* registered to it.
C8_LatestConnectionRegistered ==
  \A u \in Users :
    (UserSocks(u) # {} /\ socks[Latest(UserSocks(u))].live) =>
       users[u] = Latest(UserSocks(u))

\* C9: the registration of an owner is its newest connection, for as long as
\* that connection is open (closing an older one does not remove it), and
\* every event addressed to the owner goes to that connection only.
C9_OwnerSingleChannel ==
  /\ [](\A o \in Owners :
          /\ owners[o] # 0 =>
               owners[o] = Latest(OwnerSocks(o)) /\ socks[owners[o]].live
          /\ (OwnerSocks(o) # {} /\ socks[Latest(OwnerSocks(o))].live) =>
               owners[o] = Latest(OwnerSocks(o)))
  /\ [][\A e \in emitted' \ emitted :
          e.addr \in Owners => e.to = Latest(OwnerSocks(e.addr))]_vars

\* the older connection of an owner closed after the newer one registered,
\* and an event addressed to the owner went to the newer one
C9_Witness ==
  \E o \in Owners : \E s1, s2 \in OwnerSocks(o) :
    /\ s1 < s2 /\ socks[s1].closedAt >= s2 /\ socks[s2].live
    /\ owners[o] = s2
    /\ \E e \in emitted : e.addr = o /\ e.to = s2

\* C10: a user connection resolves its owner as the declared owner id, else
\* the cached assignment, else the owner id of the durable record; a
\* resolved owner is written to the durable record, and without one the
\* record is not written.
C10_OwnerResolution ==
  [][\A t \in 1..Len(tasks') :
       tasks'[t].kind = "conn" =>
         LET u == tasks'[t].uid
             declared == socks'[tasks'[t].sock].owner
             early == IF declared # None THEN declared
                      ELSE metadataBuffer[u].ownerId
         IN
         /\ t > Len(tasks) =>
              IF early # None
                THEN /\ tasks'[t].tgt = early /\ tasks'[t].pc = "connSave"
                     /\ chats'[u].has /\ chats'[u].ownerId = early
                ELSE /\ tasks'[t].pc = "connLookup"
                     /\ tasks'[t].docOwner = chats[u].ownerId
                     /\ chats' = chats
         /\ (t <= Len(tasks) /\ tasks[t].pc = "connLookup"
               /\ tasks'[t].pc # "connLookup") =>
              IF tasks[t].docOwner # None
                THEN /\ tasks'[t].tgt = tasks[t].docOwner
                     /\ chats'[u].ownerId = tasks[t].docOwner
                ELSE tasks'[t].tgt = None /\ chats' = chats]_vars

\* a connection that declared no owner took the cached assignment and
\* wrote it to the durable record
C10_Witness ==
  \E t \in TaskIds :
    /\ tasks[t].kind = "conn" /\ tasks[t].pc = "done"
    /\ socks[tasks[t].sock].owner = None
    /\ tasks[t].tgt \in Owners /\ tasks[t].docOwner = None
    /\ chats[tasks[t].uid].ownerId = tasks[t].tgt

\* the task of the connection handler of socket s
ConnTaskOf(s) == CHOOSE c \in TaskIds : tasks[c].kind = "conn" /\ tasks[c].sock = s
Presence == {"user:connected", "user:disconnected"}

\* C11: a user:connected or user:disconnected notification goes to one
\* connection at most, a connection of the owner it is addressed to; and the
\* user:disconnected of a connection is addressed to the owner its
\* user:connected was addressed to, when between the two the user was not
\* reassigned (no setMetadata, owner message or other connection of the user).
C11_PresenceToResolvedOwner ==
  /\ \A e \in emitted :
       e.ev \in Presence =>
         /\ socks[e.to].role = "owner" /\ socks[e.to].owner = e.addr
         /\ \A f \in emitted : (f.ev = e.ev /\ f.id = e.id) => f.to = e.to
  /\ \A d \in TaskIds :
       tasks[d].kind = "disc" =>
         LET c == ConnTaskOf(tasks[d].sock)
             u == tasks[d].uid
         IN (\A t \in TaskIds :
               (tasks[t].uid = u /\ t > c /\ t # d) =>
                  tasks[t].kind = "umsg" /\ tasks[t].sock = tasks[d].sock) =>
              \A e \in emitted :
                (e.ev = "user:disconnected" /\ e.id = d) =>
                   e.addr = tasks[c].tgt

IsPrefix(a, b) == Len(a) <= Len(b) /\ SubSeq(b, 1, Len(a)) = a

\* C14: every step (user message, owner message, AI response, setMetadata,
\* connect, disconnect, reset) keeps the durable document of a user, and
\* keeps every stored message unchanged at its position.
C14_AppendOnly ==
  [][\A u \in Users :
       /\ chats[u].has => chats'[u].has
       /\ IsPrefix(chats[u].conversation, chats'[u].conversation)]_vars

\* a conversation of several messages has gone through a setMetadata and a
\* disconnect of the user
C14_Witness ==
  \E u \in Users : \E d, m \in TaskIds :
    /\ tasks[d].kind = "disc" /\ tasks[d].uid = u /\ tasks[d].pc = "done"
    /\ tasks[m].kind = "meta" /\ tasks[m].uid = u /\ tasks[m].pc = "done"
    /\ Len(Conv(u)) >= 2
    /\ \A i \in 1..Len(Conv(u)) : Conv(u)[i].id < m /\ Conv(u)[i].id < d

\* C15: once a setMetadata has assigned user U to owner B, a later message
\* of U (no other setMetadata, owner message, connect or disconnect of U in
\* between) is forwarded to B only, and the durable record still assigns U
\* to B after the message is appended.
C15_ReassignmentRoutesToNewOwner ==
  \A m, t \in TaskIds :
    (/\ tasks[m].kind = "meta" /\ tasks[m].ownerId \in Owners
     /\ m < t /\ tasks[t].kind = "umsg" /\ tasks[t].uid = tasks[m].uid
     /\ tasks[t].pc \notin {"mLookup", "mMeta"}
     /\ \A x \in TaskIds :
          (tasks[x].uid = tasks[m].uid /\ x > m) => tasks[x].kind = "umsg") =>
       /\ tasks[t].tgt = tasks[m].ownerId
       /\ \A e \in emitted :
            (e.from = "user" /\ e.id = t) => e.addr = tasks[m].ownerId
       /\ chats[tasks[t].uid].ownerId = tasks[m].ownerId

\* ================================================ administrative surface
\* index.js 523-547: POST /chats/:userId/metadata up to the await of updateOne
HttpSetMetadata(u, name, ownerId) ==
  LET t == Len(tasks) + 1
      meta == [has |-> TRUE, username |-> name, ownerId |-> ownerId]
  IN
  /\ events < MaxEvents
  /\ metadataBuffer' = [metadataBuffer EXCEPT ![u] = meta]
  /\ chats' = [chats EXCEPT ![u] = [@ EXCEPT !.has = TRUE,
                                            !.username = name,
                                            !.ownerId = ownerId]]
  /\ tasks' = PutTask(t, [Task("hmeta", "hSave", 0, u)
                            EXCEPT !.ownerId = ownerId, !.name = name])
  /\ lastReset' = None
  /\ events' = events + 1
  /\ rag' = rag
  /\ UNCHANGED Knowledge
  /\ UNCHANGED << socks, users, owners, messagesBuffer, aiState, emitted,
                  Ghosts >>

\* socket.join('owners') of index.js 88: the room of the owner connections
OwnersRoom == {s \in SockIds : socks[s].role = "owner" /\ socks[s].live}

\* index.js 548-554: io.to('owners').emit('metadata:updated', ...)
HttpMetadataNotify(t) ==
  LET tk == tasks[t]
  IN
  /\ tk.kind = "hmeta" /\ tk.pc = "hSave"
  /\ emitted' = emitted \cup
       {[to |-> s, ev |-> "metadata:updated", from |-> None, uid |-> tk.uid,
         id |-> t, addr |-> None] : s \in OwnersRoom}
  /\ tasks' = [tasks EXCEPT ![t].pc = "done"]
  /\ lastReset' = None
  /\ events' = events
  /\ rag' = rag
  /\ UNCHANGED Knowledge
  /\ UNCHANGED << socks, users, owners, messagesBuffer, metadataBuffer,
                  chats, aiState, Ghosts >>

\* --------------------------------------------------------- active users
\* the position of a user in the iteration order of the Map `users`: the
\* first connection that set the entry after its last users.delete
LastDelete(u) ==
  LET D == {socks[s].closedAt : s \in {x \in UserSocks(u) :
                                          ~socks[x].live /\ socks[x].ready}}
  IN IF D = {} THEN 0 ELSE CHOOSE d \in D : \A x \in D : x <= d
UserKey(u) ==
  LET K == {s \in UserSocks(u) : s > LastDelete(u)}
  IN CHOOSE k \in K : \A x \in K : k <= x

\* the entries of users.entries() that the iterator has still to visit
Unvisited(pos) == {u \in Users : users[u] # 0 /\ UserKey(u) > pos}

\* index.js 110-122 and 138-149: visit the next entry of users.entries() and
\* await its findOne, or emit the list to the requesting connection
ScanNext(t, tk) ==
  IF Unvisited(tk.pos) # {}
    THEN LET u == CHOOSE x \in Unvisited(tk.pos) :
                    \A y \in Unvisited(tk.pos) : UserKey(x) <= UserKey(y)
         IN /\ tasks' = PutTask(t, [tk EXCEPT !.pc = "scan", !.cur = u,
                                              !.pos = UserKey(u),
                                              !.docHas = chats[u].has,
                                              !.docOwner = chats[u].ownerId])
            /\ emitted' = emitted
    ELSE /\ tasks' = PutTask(t, [tk EXCEPT !.pc = "done", !.cur = None])
         /\ emitted' = emitted \cup
              Emit(tk.sock, "active-users", None, None, t, None)

\* index.js 100-108: 'owner:ready' with an optional ownerId in the payload
OwnerReady(s, payloadOwner) ==
  LET t == Len(tasks) + 1
      reqOwnerId == IF payloadOwner # None THEN payloadOwner
                    ELSE socks[s].owner
      tk == [Task("ready", "scan", s, None) EXCEPT !.tgt = reqOwnerId]
  IN
  /\ events < MaxEvents
  /\ socks[s].role = "owner" /\ socks[s].live
  /\ IF reqOwnerId # None
       THEN ScanNext(t, tk)
       ELSE /\ tasks' = PutTask(t, [tk EXCEPT !.pc = "done"])
            /\ emitted' = emitted
  /\ lastReset' = None
  /\ events' = events + 1
  /\ rag' = rag
  /\ UNCHANGED Knowledge
  /\ UNCHANGED << socks, users, owners, messagesBuffer, metadataBuffer,
                  chats, aiState, Ghosts >>

\* index.js 131-137: 'get:active-users'
GetActiveUsers(s) ==
  LET t == Len(tasks) + 1
      tk == [Task("ready", "scan", s, None) EXCEPT !.tgt = socks[s].owner]
  IN
  /\ events < MaxEvents
  /\ socks[s].role = "owner" /\ socks[s].live
  /\ IF socks[s].owner # None
       THEN ScanNext(t, tk)
       ELSE /\ tasks' = PutTask(t, [tk EXCEPT !.pc = "done"])
            /\ emitted' = emitted
  /\ lastReset' = None
  /\ events' = events + 1
  /\ rag' = rag
  /\ UNCHANGED Knowledge
  /\ UNCHANGED << socks, users, owners, messagesBuffer, metadataBuffer,
                  chats, aiState, Ghosts >>

\* index.js 114-118 and 141-145: the findOne of the visited entry returned
ActiveUsersScanned(t) ==
  LET tk == tasks[t]
      hit == tk.docHas /\ tk.docOwner = tk.tgt
      tk2 == [tk EXCEPT !.list = IF hit THEN @ \cup {tk.cur} ELSE @]
  IN
  /\ tk.kind = "ready" /\ tk.pc = "scan"
  /\ ScanNext(t, tk2)
  /\ lastReset' = None
  /\ events' = events
  /\ rag' = rag
  /\ UNCHANGED Knowledge
  /\ UNCHANGED << socks, users, owners, messagesBuffer, metadataBuffer,
                  chats, aiState, Ghosts >>

\* the presence and administrative surface of the router, two users
NextAdmin ==
  \/ \E o \in Owners \cup {None} : OwnerConnect(o)
  \/ \E u \in Users, d \in Owners \cup {None} : UserConnect(u, d)
  \/ \E t \in TaskIds : UserConnResolved(t)
  \/ \E t \in TaskIds : UserConnNotify(t)
  \/ \E s \in SockIds : UserDisconnect(s)
  \/ \E t \in TaskIds : UserDiscResolved(t)
  \/ \E t \in TaskIds : UserDiscFinish(t)
  \/ \E s \in SockIds, u \in OneUser, n \in Names, o \in Owners :
        SetMetadata(s, u, n, o)
  \/ \E t \in TaskIds : SetMetadataNotify(t)
  \/ \E u \in OneUser, n \in Names, o \in Owners \cup {None} :
        HttpSetMetadata(u, n, o)
  \/ \E t \in TaskIds : HttpMetadataNotify(t)
  \/ \E s \in SockIds, p \in Owners \cup {None} : OwnerReady(s, p)
  \/ \E s \in SockIds : GetActiveUsers(s)
  \/ \E t \in TaskIds : ActiveUsersScanned(t)

SpecAdmin == Init /\ [][NextAdmin]_vars

\* the message paths of the router, two users
NextPair ==
  \/ \E o \in Owners \cup {None} : OwnerConnect(o)
  \/ \E u \in Users, d \in Owners \cup {None} : UserConnect(u, d)
  \/ \E t \in TaskIds : UserConnResolved(t)
  \/ \E t \in TaskIds : UserConnNotify(t)
  \/ \E s \in SockIds, u \in Users : OwnerMessage(s, u)
  \/ \E t \in TaskIds : OwnerMsgRecord(t)
  \/ \E t \in TaskIds : OwnerMsgNotify(t)
  \/ \E t \in TaskIds : OwnerMsgNotifyResolved(t)
  \/ \E s \in SockIds : UserMessage(s)
  \/ \E t \in TaskIds : UMsgOwnerResolved(t)
  \/ \E t \in TaskIds : UMsgMetaLoaded(t)
  \/ \E t \in TaskIds : UMsgAiCheck(t)
  \/ \E t \in TaskIds : UMsgAiHistory(t)
  \/ \E t \in TaskIds, g \in {"ok", "fail"} : UMsgAiGenerated(t, g)
  \/ \E t \in TaskIds : UMsgAiStored(t)

SpecPair == Init /\ [][NextPair]_vars

\* C12: a metadata:updated event for a user, set through the socket event or
\* through the HTTP endpoint, is delivered only to a connection of the owner
\* the metadata assigns the user to.
C12_MetadataToResolvedOwner ==
  \A e \in emitted :
    e.ev = "metadata:updated" =>
      /\ socks[e.to].role = "owner"
      /\ socks[e.to].owner = tasks[e.id].ownerId

Connected(u) == \E s \in UserSocks(u) : socks[s].live

\* C16: the active-users list sent to an owner connection holds exactly the
\* users connected at that moment whose stored owner is the owner identity
\* of that connection.
C16_ActiveUsersOwnOnly ==
  [][\A e \in emitted' \ emitted :
       e.ev = "active-users" =>
         tasks'[e.id].list =
           {u \in Users : /\ Connected(u)' /\ chats'[u].has
                          /\ chats'[u].ownerId = socks'[e.to].owner}]_vars

\* the next step of the message handler t
MsgStep(t) ==
  \/ UMsgOwnerResolved(t) \/ UMsgMetaLoaded(t) \/ UMsgAiCheck(t)
  \/ UMsgAiHistory(t) \/ UMsgAiStored(t)
  \/ \E g \in {"ok", "fail"} : UMsgAiGenerated(t, g)
  \/ OwnerMsgRecord(t) \/ OwnerMsgNotify(t) \/ OwnerMsgNotifyResolved(t)
\* the handler of a user message waits for a store or for the Responder
Pending(t) == tasks[t].kind = "umsg" /\ tasks[t].pc # "done"

\* C17: while the handler of a message of user U1 waits at an external call,
\* a message of another user and a message of any owner is accepted, and
\* the handler of every such message has its next step, whatever U1's
\* handler does (return, fail, or never return).
C17_NoCrossUserBlocking ==
  \A t1 \in TaskIds :
    Pending(t1) =>
      /\ \A t2 \in TaskIds :
           (/\ tasks[t2].kind \in {"umsg", "omsg"} /\ tasks[t2].pc # "done"
            /\ (tasks[t2].kind = "omsg" \/ tasks[t2].uid # tasks[t1].uid)) =>
              ENABLED MsgStep(t2)
      /\ events < MaxEvents =>
           /\ \A s \in SockIds :
                (/\ socks[s].role = "user" /\ socks[s].live /\ socks[s].ready
                 /\ socks[s].uid # tasks[t1].uid) => ENABLED UserMessage(s)
           /\ \A s \in SockIds, u \in Users :
                (socks[s].role = "owner" /\ socks[s].live) =>
                   ENABLED OwnerMessage(s, u)

\* the generation for u1 has not returned, and the later message of u2 has
\* been appended, answered and delivered
C17_Witness ==
  \E t1, t2 \in TaskIds :
    /\ t1 < t2
    /\ tasks[t1].kind = "umsg" /\ tasks[t1].pc = "aiHist"
    /\ tasks[t2].kind = "umsg" /\ tasks[t2].pc = "done"
    /\ tasks[t2].uid # tasks[t1].uid /\ tasks[t2].gen = "ok"
    /\ Entries(tasks[t2].uid, "user", t2) # {}
    /\ Entries(tasks[t2].uid, "ai", t2) # {}
    /\ \E e \in emitted : e.from = "ai" /\ e.id = t2 /\ e.to = tasks[t2].sock

\* ============================================================= Responder
\* One call of processUserMessage (storeVecDb.js 147-214) and of
\* getAiResponseWithContext (aiResponse.js 190-229).  The reads of the AI
\* state and of the history, the embedding service, the vector store, the
\* completion service and the append of the reply answer or fail; a
\* missing namespace is the store error whose message includes
\* 'Not found'; the completion service returns a non-empty text.
Namespaces ==
  {[exists |-> FALSE, count |-> 0]} \cup
  {[exists |-> TRUE, count |-> n] : n \in 0..MaxRecords}
HistoryLens == {0, 2, MaxHistory}
Min(a, b) == IF a <= b THEN a ELSE b

\* getConversationHistory(userId, limit = 10): conversation.slice(-limit),
\* and [] when the read fails (storeVecDb.js 122-138)
getConversationHistory(len, out) == IF out = "ok" THEN Min(len, 10) ELSE 0

\* storeVecDb.js 56-73 on the outcome of the read of ai_chat_state: false
\* only for a stored aiActive: false, true when the read fails
aiShouldRespond(out) == out # "inactive"

\* storeVecDb.js 150-158: shouldAiRespond returned; processUserMessage
\* returns null, or reads the conversation history
AiStateReturned(out) ==
  /\ rag.pc = "idle"
  /\ rag' = IF aiShouldRespond(out)
              THEN [rag EXCEPT !.aiOut = out, !.pc = "history"]
              ELSE [rag EXCEPT !.aiOut = out, !.pc = "replied"]
  /\ UNCHANGED << socks, users, owners, messagesBuffer, metadataBuffer,
                  chats, aiState, emitted, tasks, lastReset, events, Ghosts,
                  Knowledge >>

\* generateAiResponse is called: the completion request is sent with the
\* context and conversationHistory.slice(-10) (aiResponse.js 100-168)
CallGenerate(r, pc, ctx) ==
  [r EXCEPT !.pc = pc, !.completeCalls = @ + 1, !.gCtx = ctx,
            !.gTurns = Min(r.turns, 10)]

\* a Responder that searches the knowledge base for every message
RespondCall_AlwaysRetrieve(o, ns, len, hist) ==
  /\ rag.pc = "history"
  /\ rag' = [rag EXCEPT !.ownerId = o, !.ns = ns, !.hOut = hist,
                        !.turns = getConversationHistory(len, hist),
                        !.pc = "website"]
  /\ UNCHANGED << socks, users, owners, messagesBuffer, metadataBuffer,
                  chats, aiState, emitted, tasks, lastReset, events, Ghosts,
                  Knowledge >>

\* storeVecDb.js 158-168: the history read returned; with an ownerId
\* getAiResponseWithContext is called (its getOwnerWebsite is awaited),
\* without one generateAiResponse(userMessage, [], conversationHistory)
RespondCall(o, ns, len, hist) ==
  LET r == [rag EXCEPT !.ownerId = o, !.ns = ns, !.hOut = hist,
                       !.turns = getConversationHistory(len, hist)]
  IN
  /\ rag.pc = "history"
  /\ rag' = IF o # None THEN [r EXCEPT !.pc = "website"]
                        ELSE CallGenerate(r, "plainGen", << >>)
  /\ UNCHANGED << socks, users, owners, messagesBuffer, metadataBuffer,
                  chats, aiState, emitted, tasks, lastReset, events, Ghosts,
                  Knowledge >>

\* aiResponse.js 38-50 returned (null on error); then searchOwnerKnowledge
\* sends the embedding request (193-196, 64), or the fallback calls
\* generateAiResponse with no context (216-217)
WebsiteReturned(w) ==
  /\ rag.pc \in {"website", "fbWebsite"}
  /\ rag' = IF rag.pc = "website"
              THEN [rag EXCEPT !.website = w, !.pc = "embed",
                               !.embedCalls = @ + 1]
              ELSE CallGenerate([rag EXCEPT !.website = w], "fbGen", << >>)
  /\ UNCHANGED << socks, users, owners, messagesBuffer, metadataBuffer,
                  chats, aiState, emitted, tasks, lastReset, events, Ghosts,
                  Knowledge >>

\* a handler that lets every error of the retrieval reach the caller
OnRespondError_Propagate(r) == [r EXCEPT !.pc = "thrown"]

\* aiResponse.js 211-216: catch of getAiResponseWithContext, the fallback
OnRespondError(r) == [r EXCEPT !.pc = "fbWebsite", !.fellBack = TRUE]

\* a search that rethrows every error
CatchSearchError_Rethrow(r, notFound) == OnRespondError(r)

\* aiResponse.js 82-89: catch of searchOwnerKnowledge; an error whose
\* message includes 'Not found' is an empty result, any other is rethrown
CatchSearchError(r, notFound) ==
  IF notFound THEN CallGenerate([r EXCEPT !.ctx = << >>], "gen", << >>)
  ELSE OnRespondError(r)

\* aiResponse.js 64-71: the embedding returned and the search is sent, or
\* generateEmbedding threw
EmbedReturned(out) ==
  /\ rag.pc = "embed"
  /\ rag' = IF out = "ok"
              THEN [rag EXCEPT !.eOut = out, !.pc = "search",
                               !.searchCalls = @ + 1]
              ELSE CatchSearchError([rag EXCEPT !.eOut = out],
                                    out = "notFoundError")
  /\ UNCHANGED << socks, users, owners, messagesBuffer, metadataBuffer,
                  chats, aiState, emitted, tasks, lastReset, events, Ghosts,
                  Knowledge >>

\* the records the store returns: the `limit` nearest of the namespace
Hits(ns) == [i \in 1..Min(Limit, ns.count) |-> i]

\* aiResponse.js 67-89 and 196-199: the search returned or threw
SearchReturned(out) ==
  /\ rag.pc = "search"
  /\ rag' = IF out = "error"
              THEN CatchSearchError([rag EXCEPT !.sOut = "error"], FALSE)
              ELSE IF ~rag.ns.exists
                THEN CatchSearchError([rag EXCEPT !.sOut = "notFound"], TRUE)
                ELSE CallGenerate([rag EXCEPT !.sOut = "ok",
                                              !.ctx = Hits(rag.ns)],
                                  "gen", Hits(rag.ns))
  /\ UNCHANGED << socks, users, owners, messagesBuffer, metadataBuffer,
                  chats, aiState, emitted, tasks, lastReset, events, Ghosts,
                  Knowledge >>

\* aiResponse.js 170-181 with 199-210, 217-227 and storeVecDb.js 168-173:
\* the completion returned its text, or generateAiResponse threw
GenerationReturned(out, text) ==
  /\ rag.pc \in {"gen", "fbGen", "plainGen"}
  /\ rag' =
       IF rag.pc = "gen"
         THEN IF out = "ok"
                THEN [rag EXCEPT !.gOut = out, !.gText = text,
                        !.pc = "returned",
                        !.result = [has |-> TRUE, response |-> text,
                                    contextUsed |-> Len(rag.ctx) > 0,
                                    sources |-> rag.ctx, error |-> None]]
                ELSE OnRespondError([rag EXCEPT !.gOut = out])
       ELSE IF rag.pc = "fbGen"
         THEN IF out = "ok"
                THEN [rag EXCEPT !.fOut = out, !.gText = text,
                        !.pc = "returned",
                        !.result = [has |-> TRUE, response |-> text,
                                    contextUsed |-> FALSE,
                                    sources |-> << >>, error |-> KbFlag]]
                ELSE [rag EXCEPT !.fOut = out, !.pc = "thrown"]
       ELSE IF out = "ok"
         THEN [rag EXCEPT !.gOut = out, !.gText = text, !.pc = "returned",
                 !.result = [has |-> TRUE, response |-> text,
                             contextUsed |-> FALSE, sources |-> << >>,
                             error |-> None]]
         ELSE [rag EXCEPT !.gOut = out, !.pc = "thrown"]
  /\ UNCHANGED << socks, users, owners, messagesBuffer, metadataBuffer,
                  chats, aiState, emitted, tasks, lastReset, events, Ghosts,
                  Knowledge >>

\* a handler whose catch rethrows
ProcessCatch_Rethrow(r) == [r EXCEPT !.pc = "raised"]

\* storeVecDb.js 202-213: the catch of processUserMessage
ProcessCatch(r) ==
  [r EXCEPT !.pc = "replied",
            !.reply = [has |-> TRUE, from |-> "ai", text |-> Apology,
                       hasContext |-> FALSE, contextUsed |-> FALSE,
                       sources |-> << >>, error |-> TRUE]]

\* storeVecDb.js 176-213: the value processUserMessage returns, once the
\* $push of the AI message issued at line 186 answered or failed, or once
\* the Responder threw
ProcessReturn(out) ==
  /\ rag.pc \in {"returned", "thrown"}
  /\ rag.pc = "thrown" => out = "ok"
  /\ rag' = IF rag.pc = "thrown" THEN ProcessCatch(rag)
            ELSE IF out # "ok" THEN ProcessCatch([rag EXCEPT !.pOut = out])
            ELSE [rag EXCEPT !.pc = "replied", !.pOut = out,
                    !.reply = [has |-> TRUE, from |-> "ai",
                               text |-> rag.result.response,
                               hasContext |-> TRUE,
                               contextUsed |-> rag.result.contextUsed,
                               sources |-> rag.result.sources,
                               error |-> FALSE]]
  /\ UNCHANGED << socks, users, owners, messagesBuffer, metadataBuffer,
                  chats, aiState, emitted, tasks, lastReset, events, Ghosts,
                  Knowledge >>

NextRespond ==
  \/ \E out \in {"active", "inactive", "error"} : AiStateReturned(out)
  \/ \E o \in Owners \cup {None}, ns \in Namespaces, len \in HistoryLens,
        hist \in {"ok", "error"} :
        RespondCall(o, ns, len, hist)
  \/ \E w \in {None, "url"} : WebsiteReturned(w)
  \/ \E out \in {"ok", "error", "notFoundError"} : EmbedReturned(out)
  \/ \E out \in {"ok", "error"} : SearchReturned(out)
  \/ \E out \in {"ok", "fail"}, text \in Texts : GenerationReturned(out, text)
  \/ \E out \in {"ok", "error"} : ProcessReturn(out)

SpecRespond == Init /\ [][NextRespond]_vars

\* C18: a call with no ownerId sends no embedding request and no search;
\* when the completion answers, the result has contextUsed = false, no
\* sources and the text of the completion, and processUserMessage returns
\* an AI message with that text once its append to the chat succeeded.
C18_NoOwnerNoRetrieval ==
  (rag.hOut # None /\ rag.ownerId = None) =>
    /\ rag.embedCalls = 0 /\ rag.searchCalls = 0
    /\ rag.gCtx = << >>
    /\ rag.gOut = "ok" =>
         /\ rag.result.has /\ ~rag.result.contextUsed
         /\ rag.result.sources = << >>
         /\ rag.result.response = rag.gText /\ rag.gText \in Texts
    /\ rag.pc = "replied" =>
         /\ rag.reply.has
         /\ (rag.gOut = "ok" /\ rag.pOut = "ok") =>
              /\ rag.reply.text = rag.gText /\ ~rag.reply.error
              /\ ~rag.reply.contextUsed /\ rag.reply.sources = << >>

\* a user without owner and with a long conversation got the completion's
\* text as reply
C18_Witness ==
  /\ rag.pc = "replied" /\ rag.ownerId = None /\ rag.gOut = "ok"
  /\ rag.reply.text \in Texts /\ rag.completeCalls = 1 /\ rag.gTurns = 10

\* C19: for an owner whose namespace is missing or holds no record, when
\* the embedding and the store answer, the search result is empty and not
\* an error: the fallback is not taken for it, and the result of the
\* generation has contextUsed = false, no sources, no error flag and a
\* non-empty text.
C19_EmptyKnowledgeIsNotError ==
  (/\ rag.ownerId \in Owners /\ (~rag.ns.exists \/ rag.ns.count = 0)
   /\ rag.eOut = "ok" /\ rag.sOut \in {"ok", "notFound"}) =>
    /\ rag.ctx = << >> /\ rag.gCtx = << >>
    /\ rag.gOut # "fail" =>
         ~rag.fellBack /\ rag.pc \in {"gen", "returned", "replied"}
    /\ rag.gOut = "ok" =>
         /\ rag.result.has /\ ~rag.result.contextUsed
         /\ rag.result.sources = << >> /\ rag.result.error = None
         /\ rag.result.response \in Texts

\* the namespace of the owner does not exist and the reply was generated
\* without the fallback
C19_Witness ==
  /\ rag.pc = "replied" /\ rag.ownerId \in Owners /\ ~rag.ns.exists
  /\ rag.sOut = "notFound" /\ ~rag.fellBack /\ rag.gOut = "ok"
  /\ rag.result.has /\ ~rag.reply.error

\* C20: when the embedding or the search fails with an error other than
\* not-found, the generation is called once more with an empty context and
\* its result has contextUsed = false, no sources and the error flag; the
\* call throws only if that generation fails too.
C20_RetrievalFailureFallsBack ==
  /\ (rag.eOut = "error" \/ rag.sOut = "error") =>
       /\ rag.fellBack
       /\ rag.pc \in {"fbWebsite", "fbGen", "returned", "thrown", "replied"}
       /\ rag.pc # "fbWebsite" => rag.completeCalls = 1 /\ rag.gCtx = << >>
       /\ rag.fOut = "ok" =>
            /\ rag.result.has /\ ~rag.result.contextUsed
            /\ rag.result.sources = << >> /\ rag.result.error = KbFlag
            /\ rag.result.response = rag.gText
            /\ rag.pc \in {"returned", "replied"}
       /\ rag.fOut # "ok" => ~rag.result.has
  /\ (/\ rag.ownerId \in Owners /\ rag.pOut # "error"
      /\ (rag.pc = "thrown" \/ rag.reply.error)) =>
       rag.fOut = "fail"

\* the store failed, the fallback generation answered, and the caller got
\* the flagged result
C20_Witness ==
  /\ rag.pc = "replied" /\ rag.sOut = "error" /\ rag.fOut = "ok"
  /\ rag.result.error = KbFlag /\ ~rag.reply.error
  /\ rag.reply.text \in Texts

\* C21: processUserMessage never raises: whatever the outcomes of the
\* reads of the AI state and of the history, of the retrieval, of the
\* generation and of the append, it returns null (only when the stored
\* state says the AI is not authoritative) or a message from 'ai' whose
\* text is the completion's text or the apology; when the generation fails
\* on the grounded path and on the fallback path, or on the only path of a
\* call without owner, the message is the apology flagged as an error.
C21_NeverRaises ==
  /\ rag.pc # "raised"
  /\ rag.pc = "replied" =>
       /\ ~rag.reply.has <=> rag.aiOut = "inactive"
       /\ rag.reply.has =>
            /\ rag.reply.from = "ai"
            /\ rag.reply.text \in Texts \cup {Apology}
            /\ rag.reply.error <=> rag.reply.text = Apology
       /\ (\/ rag.fOut = "fail"
           \/ rag.ownerId = None /\ rag.gOut = "fail"
           \/ rag.pOut = "error") =>
            rag.reply.has /\ rag.reply.text = Apology /\ rag.reply.error

\* both reads failed, the grounded and the fallback generation failed, and
\* the caller got the apology
C21_Witness ==
  /\ rag.pc = "replied" /\ rag.aiOut = "error" /\ rag.hOut = "error"
  /\ rag.gOut = "fail" /\ rag.fOut = "fail"
  /\ rag.reply.has /\ rag.reply.from = "ai" /\ rag.reply.text = Apology
  /\ rag.reply.error

\* ============================================================== Chunking
\* splitTextIntoChunks(text, chunkSize = 1000, overlap = 200) of
\* scraping.js 371-382, applied to texts of every length up to MaxTextLen.
\* A text is a sequence of UTF-16 code units; the texts of the model carry
\* a different code unit at every position, so that each unit of a chunk
\* tells the position it was taken from.
MaxTextLen == 2600
chunkSize == 1000
overlap == 200
Text(len) == [i \in 1..len |-> i]

\* a slice that takes the code unit at `end` as well
Slice_Inclusive(text, start, end) ==
  SubSeq(text, start + 1, Min(end + 1, Len(text)))

\* String.prototype.slice(start, end) for 0 <= start <= end <= length
Slice(text, start, end) == SubSeq(text, start + 1, end)

\* the while loop of lines 375-379
RECURSIVE SplitLoop(_, _, _, _, _)
SplitLoop(text, size, ovl, start, chunks) ==
  IF start < Len(text)
    THEN LET end == Min(start + size, Len(text))
         IN SplitLoop(text, size, ovl, start + size - ovl,
                      Append(chunks, Slice(text, start, end)))
    ELSE chunks

\* a splitter whose windows follow each other without overlap
splitTextIntoChunks_NoOverlap(text, size, ovl) ==
  SplitLoop(text, size, 0, 0, << >>)

\* a splitter whose windows do not overlap and leave a gap between them
splitTextIntoChunks_Gaps(text, size, ovl) ==
  SplitLoop(text, size - ovl, 0 - ovl, 0, << >>)

\* scraping.js 371-382
splitTextIntoChunks(text, size, ovl) == SplitLoop(text, size, ovl, 0, << >>)

\* a text of `len` code units is split with the default window and
\* overlap; a behaviour holds one call
SplitText(len) ==
  /\ split = NoSplit
  /\ split' = [len |-> len,
               chunks |-> splitTextIntoChunks(Text(len), chunkSize, overlap)]
  /\ UNCHANGED << socks, users, owners, messagesBuffer, metadataBuffer,
                  chats, aiState, emitted, tasks, lastReset, events, Ghosts,
                  rag, now, qdrant, ingests, kbCalls, kbOps, kmDocs, kmTasks,
                  qclient, Aux >>

NextChunk == \E len \in 1..MaxTextLen : SplitText(len)

SpecChunk == Init /\ [][NextChunk]_vars

\* the positions of the text a chunk was taken from
Covered(chunk) == {chunk[j] : j \in 1..Len(chunk)}
\* the window of the k-th chunk (k from 1)
WinStart(k) == (k - 1) * (chunkSize - overlap)
WinEnd(k, len) == Min(WinStart(k) + chunkSize, len)
CeilDiv(a, b) == (a + b - 1) \div b

\* C22: for every text of length L >= 1 the chunks cover the whole text
\* (every position lies in at least one chunk), they appear in increasing
\* start order, and each chunk is the substring of the text at its window.
C22_ChunksCoverText ==
  split.len >= 1 =>
    LET n == Len(split.chunks)
    IN
    /\ n >= 1
    /\ UNION {Covered(split.chunks[k]) : k \in 1..n} = 1..split.len
    /\ \A k \in 1..n :
         /\ split.chunks[k] # << >>
         /\ split.chunks[k] =
              Slice(Text(split.len), WinStart(k), WinEnd(k, split.len))
    /\ \A k \in 1..(n - 1) :
         split.chunks[k][1] < split.chunks[k + 1][1]

\* a text of 2500 code units was split
C22_Witness ==
  /\ split.len = 2500 /\ Len(split.chunks) >= 3
  /\ split.chunks[1][1] = 1
  /\ split.chunks[Len(split.chunks)][Len(split.chunks[Len(split.chunks)])]
       = 2500

\* the code units two chunks have in common
Shared(a, b) == Cardinality(Covered(a) \cap Covered(b))
\* the text length leaves a rest of 1..overlap units after the last full step
ShortTail(len) ==
  len % (chunkSize - overlap) \in 1..overlap

\* C23 as stated: for a text of length L > 200 the number of chunks is
\* ceil((L - 200) / 800), 3 for L = 2500, and no chunk lies entirely inside
\* the chunk before it.
C23_ChunkCount ==
  split.len > overlap =>
    /\ Len(split.chunks) =
         CeilDiv(split.len - overlap, chunkSize - overlap)
    /\ \A k \in 2..Len(split.chunks) :
         ~(Covered(split.chunks[k]) \subseteq Covered(split.chunks[k - 1]))

\* C23, amended: for a text of length L >= 1 the number of chunks is
\* ceil(L / 800).  For L > 200 this is ceil((L - 200) / 800) unless
\* L mod 800 is in 1..200; then it is one more, and the last chunk (and
\* only the last) lies entirely inside the chunk before it: 4 chunks for
\* L = 2500.
C23_ChunkCountAmended ==
  split.len >= 1 =>
    LET n == Len(split.chunks)
    IN
    /\ n = CeilDiv(split.len, chunkSize - overlap)
    /\ split.len > overlap =>
         n = CeilDiv(split.len - overlap, chunkSize - overlap)
               + (IF ShortTail(split.len) THEN 1 ELSE 0)
    /\ \A k \in 2..n :
         (Covered(split.chunks[k]) \subseteq Covered(split.chunks[k - 1]))
           <=> (k = n /\ ShortTail(split.len))

\* a text of 2500 code units gave 4 chunks, the last of them the 100 units
\* that end the third
C23_Witness ==
  /\ split.len = 2500 /\ Len(split.chunks) = 4
  /\ Len(split.chunks[4]) = 100
  /\ Covered(split.chunks[4]) \subseteq Covered(split.chunks[3])

\* C24 as stated: every chunk except the last has exactly the window size,
\* consecutive chunks share exactly the overlap, and only the last chunk
\* may be shorter than the window.
C24_WindowAndOverlap ==
  LET n == Len(split.chunks)
  IN
  /\ \A k \in 1..(n - 1) :
       /\ Len(split.chunks[k]) = chunkSize
       /\ Shared(split.chunks[k], split.chunks[k + 1]) = overlap
  /\ \A k \in 1..n : Len(split.chunks[k]) <= chunkSize

\* C24, amended: every chunk except the last two has exactly the window
\* size and shares exactly the overlap with its successor; the chunk
\* before the last has more than window - overlap units, is shorter than
\* the window exactly when the last chunk is shorter than the overlap, and
\* shares with the last chunk the overlap or, then, the whole last chunk;
\* no chunk is empty or longer than the window.
C24_WindowAndOverlapAmended ==
  LET n == Len(split.chunks)
  IN
  /\ \A k \in 1..(n - 2) :
       /\ Len(split.chunks[k]) = chunkSize
       /\ Shared(split.chunks[k], split.chunks[k + 1]) = overlap
  /\ n >= 2 =>
       /\ Len(split.chunks[n - 1]) > chunkSize - overlap
       /\ Len(split.chunks[n - 1]) = chunkSize
            <=> Len(split.chunks[n]) >= overlap
       /\ Len(split.chunks[n]) <= overlap <=> ShortTail(split.len)
       /\ Shared(split.chunks[n - 1], split.chunks[n]) =
            Min(overlap, Len(split.chunks[n]))
  /\ \A k \in 1..n :
       Len(split.chunks[k]) >= 1 /\ Len(split.chunks[k]) <= chunkSize

\* a text of 900 code units gave a first chunk of 900 units and a last
\* chunk of 100, all of them shared
C24_Witness ==
  /\ split.len = 900 /\ Len(split.chunks) = 2
  /\ Len(split.chunks[1]) = 900 /\ Len(split.chunks[2]) = 100
  /\ Shared(split.chunks[1], split.chunks[2]) = 100

\* ============================================================= Ingestion
\* storeTextResource of scraping.js 489-537 on the vector store, with
\* getOwnerResourceStats, deleteOwnerResources and searchOwnerKnowledge.
\* Several uploads may be in progress at once: every await of the function
\* is a point where another request runs.  The clock advances between any
\* two steps or stands still.  The store reports a missing collection by
\* the error whose message includes 'Not found', refuses to create a
\* collection that exists, and answers the delete of a missing collection
\* with false.
MaxKbOps == 3       \* knowledge operations in a behaviour
MaxIngests == 2     \* uploads in a behaviour
MaxClock == 2       \* milliseconds the clock advances
IngestLens == {100, 900}    \* lengths of the ingested texts: 1 and 2 chunks
EmptyMd == [k \in {} |-> k]
\* caller-supplied metadata: none, a title, keys of the record itself
Metadatas ==
  {EmptyMd, [title |-> "Test Data"], [ownerId |-> "B", chunkIndex |-> 7]}

IngestIds == 1..Len(ingests)

\* { ...a, ...b }
Spread(a, b) ==
  [k \in DOMAIN a \cup DOMAIN b |-> IF k \in DOMAIN b THEN b[k] ELSE a[k]]

\* the id of a point: a number, or a prefix and the id of a document
NumId(n) == << "", n >>

\* scraping.js 505: id: Date.now() + i
PointId(i) == NumId(now + i)

\* scraping.js 507-514: the payload of the point of chunk i
Payload(chunk, i, n, ownerId, metadata) ==
  Spread([text |-> chunk, chunkIndex |-> i, totalChunks |-> n,
          ownerId |-> ownerId, timestamp |-> now],
         metadata)

\* qdrantClient.upsert: a point replaces the point of the same id; of two
\* points of one request with the same id the later one stays
Upsert(points, new) ==
  {p \in points : \A j \in 1..Len(new) : new[j].id # p.id} \cup
  {new[j] : j \in {k \in 1..Len(new) :
                     \A m \in (k + 1)..Len(new) : new[m].id # new[k].id}}

\* the points of an upload that were written and not replaced or deleted
Stored(t) ==
  {p \in qdrant[ingests[t].coll].points : p.task = t}

IngestTask(ownerId, len, metadata) ==
  [ownerId |-> ownerId, len |-> len, metadata |-> metadata,
   coll |-> CollectionName(ownerId), pc |-> "ensure",
   exists |-> qdrant[CollectionName(ownerId)].exists, cOut |-> None,
   chunks |-> << >>, i |-> 0, points |-> << >>, uOut |-> None,
   before |-> 0, after |-> 0, chunksStored |-> 0]

\* index.js 574-616 -> scraping.js 489-492, 338-343: an upload arrives;
\* ensureOwnerCollection asks the store for its collections
StoreTextResource(ownerId, len, metadata) ==
  /\ kbOps < MaxKbOps /\ Len(ingests) < MaxIngests
  /\ kbOps' = kbOps + 1
  /\ ingests' = Append(ingests, IngestTask(ownerId, len, metadata))
  /\ UNCHANGED << now, qdrant, kbCalls, split, kmDocs, kmTasks, qclient >>
  /\ UNCHANGED << socks, users, owners, messagesBuffer, metadataBuffer,
                  chats, aiState, emitted, tasks, lastReset, events, Ghosts,
                  rag, Aux >>

\* scraping.js 495-502: the text is split and the embedding of the first
\* chunk is requested
StartChunks(tk) ==
  [tk EXCEPT !.pc = "embed", !.i = 0,
             !.chunks = splitTextIntoChunks(Text(tk.len), chunkSize, overlap)]

\* scraping.js 343-357: the list of collections returned; the collection
\* is created if the list does not name it
EnsureListed(t, out) ==
  LET tk == ingests[t]
      c == tk.coll
  IN
  /\ tk.pc = "ensure"
  /\ IF out # "ok"
       THEN /\ ingests' = [ingests EXCEPT ![t].pc = "thrown"]
            /\ qdrant' = qdrant
       ELSE IF tk.exists
         THEN /\ ingests' = [ingests EXCEPT ![t] = StartChunks(tk)]
              /\ qdrant' = qdrant
         ELSE /\ ingests' = [ingests EXCEPT ![t].pc = "create",
                   ![t].cOut = IF qdrant[c].exists THEN "conflict" ELSE "ok"]
              /\ qdrant' = IF qdrant[c].exists THEN qdrant
                           ELSE [qdrant EXCEPT ![c].exists = TRUE]
  /\ UNCHANGED << now, kbCalls, kbOps, split, kmDocs, kmTasks, qclient >>
  /\ UNCHANGED << socks, users, owners, messagesBuffer, metadataBuffer,
                  chats, aiState, emitted, tasks, lastReset, events, Ghosts,
                  rag, Aux >>

\* scraping.js 348-361: createCollection returned or threw
CollectionCreated(t) ==
  LET tk == ingests[t]
  IN
  /\ tk.pc = "create"
  /\ ingests' = [ingests EXCEPT ![t] =
                   IF tk.cOut = "ok" THEN StartChunks(tk)
                   ELSE [tk EXCEPT !.pc = "thrown"]]
  /\ UNCHANGED << now, qdrant, kbCalls, kbOps, split, kmDocs, kmTasks, qclient >>
  /\ UNCHANGED << socks, users, owners, messagesBuffer, metadataBuffer,
                  chats, aiState, emitted, tasks, lastReset, events, Ghosts,
                  rag, Aux >>

\* scraping.js 500-522: the embedding of chunk i returned and its point is
\* pushed; after the last chunk the points are upserted
ChunkEmbedded(t, out) ==
  LET tk == ingests[t]
      c == tk.coll
      n == Len(tk.chunks)
      point == [id |-> PointId(tk.i),
                payload |-> Payload(tk.chunks[tk.i + 1], tk.i, n,
                                    tk.ownerId, tk.metadata),
                writer |-> tk.ownerId, task |-> t, idx |-> tk.i]
      points == Append(tk.points, point)
  IN
  /\ tk.pc = "embed"
  /\ IF out # "ok"
       THEN /\ ingests' = [ingests EXCEPT ![t].pc = "thrown"]
            /\ qdrant' = qdrant
       ELSE IF tk.i + 1 < n
         THEN /\ ingests' = [ingests EXCEPT ![t].points = points,
                                            ![t].i = tk.i + 1]
              /\ qdrant' = qdrant
         ELSE /\ qdrant' = IF qdrant[c].exists
                THEN [qdrant EXCEPT ![c].points = Upsert(@, points)]
                ELSE qdrant
              /\ ingests' = [ingests EXCEPT ![t].points = points,
                   ![t].i = tk.i + 1, ![t].pc = "upsert",
                   ![t].uOut = IF qdrant[c].exists THEN "ok" ELSE "notFound",
                   ![t].before = Cardinality(qdrant[c].points),
                   ![t].after = Cardinality(qdrant'[c].points)]
  /\ UNCHANGED << now, kbCalls, kbOps, split, kmDocs, kmTasks, qclient >>
  /\ UNCHANGED << socks, users, owners, messagesBuffer, metadataBuffer,
                  chats, aiState, emitted, tasks, lastReset, events, Ghosts,
                  rag, Aux >>

\* scraping.js 519-536: the upsert returned or threw
UpsertReturned(t) ==
  LET tk == ingests[t]
  IN
  /\ tk.pc = "upsert"
  /\ ingests' = [ingests EXCEPT ![t] =
                   IF tk.uOut = "ok"
                     THEN [tk EXCEPT !.pc = "done",
                                     !.chunksStored = Len(tk.points)]
                     ELSE [tk EXCEPT !.pc = "thrown"]]
  /\ UNCHANGED << now, qdrant, kbCalls, kbOps, split, kmDocs, kmTasks, qclient >>
  /\ UNCHANGED << socks, users, owners, messagesBuffer, metadataBuffer,
                  chats, aiState, emitted, tasks, lastReset, events, Ghosts,
                  rag, Aux >>

\* a millisecond passes
Tick ==
  /\ now < MaxClock
  /\ now' = now + 1
  /\ UNCHANGED << qdrant, ingests, kbCalls, kbOps, split, kmDocs, kmTasks, qclient >>
  /\ UNCHANGED << socks, users, owners, messagesBuffer, metadataBuffer,
                  chats, aiState, emitted, tasks, lastReset, events, Ghosts,
                  rag, Aux >>

\* a call of search, stats or delete and what it returned
KbCall(op, ownerId, out, status, count, hits) ==
  [op |-> op, ownerId |-> ownerId, coll |-> CollectionName(ownerId),
   out |-> out, status |-> status, count |-> count, hits |-> hits,
   existed |-> qdrant[CollectionName(ownerId)].exists,
   others |-> [c \in Collections \ {CollectionName(ownerId)} |-> qdrant[c]]]

\* a delete that reports the missing collection as the store's error
DeleteResult_NotFoundThrows(c, out) ==
  IF out = "ok" /\ qdrant[c].exists THEN "success" ELSE "thrown"

\* scraping.js 547-554: success unless deleteCollection threw
DeleteResult(c, out) == IF out = "ok" THEN "success" ELSE "thrown"

\* index.js 631-640 -> scraping.js 544-555: deleteCollection of the
\* owner's collection; the store answers, or is not reached
DeleteOwnerResources(ownerId, out) ==
  LET c == CollectionName(ownerId)
  IN
  /\ kbOps < MaxKbOps
  /\ kbOps' = kbOps + 1
  /\ qdrant' = IF out = "ok" THEN [qdrant EXCEPT ![c] = NoCollection]
               ELSE qdrant
  /\ kbCalls' = Append(<< >>,
                  KbCall("delete", ownerId, out, DeleteResult(c, out), 0,
                         {}))
  /\ UNCHANGED << now, ingests, split, kmDocs, kmTasks, qclient >>
  /\ UNCHANGED << socks, users, owners, messagesBuffer, metadataBuffer,
                  chats, aiState, emitted, tasks, lastReset, events, Ghosts,
                  rag, Aux >>

\* scraping.js 565-584: the counts of the collection; the error whose
\* message includes 'Not found' gives zero counts, any other is rethrown
StatsResult(c, out) ==
  IF out # "ok" THEN "thrown"
  ELSE IF qdrant[c].exists THEN "stats" ELSE "empty"

\* index.js 619-628 -> scraping.js 562-585
GetOwnerResourceStats(ownerId, out) ==
  LET c == CollectionName(ownerId)
  IN
  /\ kbOps < MaxKbOps
  /\ kbOps' = kbOps + 1
  /\ kbCalls' = Append(<< >>,
       KbCall("stats", ownerId, out, StatsResult(c, out),
              IF StatsResult(c, out) = "stats"
                THEN Cardinality(qdrant[c].points) ELSE 0, {}))
  /\ UNCHANGED << now, qdrant, ingests, split, kmDocs, kmTasks, qclient >>
  /\ UNCHANGED << socks, users, owners, messagesBuffer, metadataBuffer,
                  chats, aiState, emitted, tasks, lastReset, events, Ghosts,
                  rag, Aux >>

\* a search that reads the collections of every owner
SearchScope_AllOwners(ownerId) == Collections

\* aiResponse.js 60, 67: the collection the search is sent to
SearchScope(ownerId) == {CollectionName(ownerId)}

\* aiResponse.js 73-81: what the caller gets of a hit (with the owner the
\* point was written for); a payload without chunkIndex gives undefined,
\* written -1
Hit(p) == [text |-> p.payload.text,
           chunkIndex |-> IF "chunkIndex" \in DOMAIN p.payload
                            THEN p.payload.chunkIndex ELSE -1,
           writer |-> p.writer]

\* aiResponse.js 59-90: the store answers the search with `limit` of the
\* points of the collection, or with the not-found error, or is not reached
SearchOwnerKnowledge(ownerId, out) ==
  LET c == CollectionName(ownerId)
      found == UNION {qdrant[x].points : x \in SearchScope(ownerId)}
  IN
  /\ kbOps < MaxKbOps
  /\ kbOps' = kbOps + 1
  /\ \E hits \in SUBSET found :
       /\ Cardinality(hits) = Min(Limit, Cardinality(found))
       /\ kbCalls' = Append(<< >>,
            IF out # "ok"
              THEN KbCall("search", ownerId, out, "thrown", 0, {})
            ELSE IF ~qdrant[c].exists
              THEN KbCall("search", ownerId, out, "empty", 0, {})
              ELSE KbCall("search", ownerId, out, "hits",
                          Cardinality(hits), {Hit(p) : p \in hits}))
  /\ UNCHANGED << now, qdrant, ingests, split, kmDocs, kmTasks, qclient >>
  /\ UNCHANGED << socks, users, owners, messagesBuffer, metadataBuffer,
                  chats, aiState, emitted, tasks, lastReset, events, Ghosts,
                  rag, Aux >>

NextIngest ==
  \/ \E o \in Owners, len \in IngestLens, md \in Metadatas :
        StoreTextResource(o, len, md)
  \/ \E t \in IngestIds, out \in {"ok", "error"} : EnsureListed(t, out)
  \/ \E t \in IngestIds : CollectionCreated(t)
  \/ \E t \in IngestIds, out \in {"ok", "error"} : ChunkEmbedded(t, out)
  \/ \E t \in IngestIds : UpsertReturned(t)
  \/ Tick

SpecIngest == Init /\ [][NextIngest]_vars

\* the ids of the points an upload sent to the store
SentIds(t) == {ingests[t].points[j].id : j \in 1..Len(ingests[t].points)}
\* the upload wrote its points
Written(t) == ingests[t].uOut = "ok"

\* C25: every record an upload writes gets an id distinct from the ids in
\* the namespace and from the other ids of the upload, so an upload of n
\* chunks increases the record count by n, and two finished uploads of
\* the same text leave 2n records, whether they ran one after the other
\* or overlapped.
C25_UniqueIds ==
  /\ \A t \in IngestIds :
       Written(t) =>
         /\ Cardinality(SentIds(t)) = Len(ingests[t].chunks)
         /\ ingests[t].after = ingests[t].before + Len(ingests[t].chunks)
  /\ \A t1, t2 \in IngestIds :
       (/\ t1 < t2 /\ ingests[t1].pc = "done" /\ ingests[t2].pc = "done"
        /\ ingests[t1].ownerId = ingests[t2].ownerId
        /\ ingests[t1].len = ingests[t2].len) =>
          Cardinality(qdrant[ingests[t1].coll].points) =
            2 * Len(ingests[t1].chunks)

\* C26: the i-th record an upload writes carries the i-th chunk as text,
\* chunkIndex i, totalChunks n and the ownerId of the upload, whatever the
\* keys of the metadata, and the upload returns chunksStored = n.
C26_RecordFields ==
  \A t \in IngestIds :
    LET tk == ingests[t]
        n == Len(tk.chunks)
    IN
    /\ \A j \in 1..Len(tk.points) :
         /\ tk.points[j].payload.text = tk.chunks[j]
         /\ tk.points[j].payload.chunkIndex = j - 1
         /\ tk.points[j].payload.totalChunks = n
         /\ tk.points[j].payload.ownerId = tk.ownerId
    /\ tk.pc = "done" => tk.chunksStored = n /\ Len(tk.points) = n

\* ===================================================== Knowledge manager
\* saveQnA / saveProduct and deleteQnA / deleteProduct of knowledgeManager.js
\* (src/unnamed/part_002).  The two pairs differ in the MongoDB collection
\* ('qna', 'products') and in the prefix of the point id only, so `kind`
\* selects between them.  A request is served by one of the workers; the
\* clients of the module are created by initClients, per worker.  The
\* id of a new document is the number of the call that inserted it.
Kinds == {"qna", "product"}
KmIds == 1..Len(kmTasks)
DocIds == 1..MaxKbOps

\* `qna_${qnaId}`, `product_${productId}`
DocPointId(kind, id) ==
  << IF kind = "qna" THEN "qna_" ELSE "product_", id >>

\* the text of an entry: `Question: ...\nAnswer: ...`
EntryText(kind, id) == << 0, id >>

KmTask(op, w, ownerId, kind, id) ==
  [op |-> op, w |-> w, ownerId |-> ownerId, kind |-> kind, id |-> id,
   coll |-> CollectionName(ownerId), pc |-> "start",
   exists |-> FALSE, cOut |-> None, mOut |-> None, qOut |-> None,
   qCalled |-> FALSE, warned |-> FALSE, vecLeft |-> FALSE]

\* knowledgeManager.js 88-92, 62-67: a save arrives; ensureQdrantCollection
\* calls initClients and asks the store for the collection
SaveEntry(w, ownerId, kind, id) ==
  /\ kbOps < MaxKbOps
  /\ id # 0 => id \in {kmTasks[t].id : t \in KmIds}
  /\ kbOps' = kbOps + 1
  /\ qclient' = [qclient EXCEPT ![w] = TRUE]
  /\ kmTasks' = Append(kmTasks,
       [KmTask("save", w, ownerId, kind, id) EXCEPT
          !.pc = "ensure",
          !.exists = qdrant[CollectionName(ownerId)].exists])
  /\ UNCHANGED << now, qdrant, ingests, kbCalls, split, kmDocs >>
  /\ UNCHANGED << socks, users, owners, messagesBuffer, metadataBuffer,
                  chats, aiState, emitted, tasks, lastReset, events, Ghosts,
                  rag, Aux >>

\* knowledgeManager.js 67-80, 98: getCollection returned or threw; on any
\* error the collection is created; then the embedding is requested
SaveEnsured(t, out) ==
  LET tk == kmTasks[t]
      c == tk.coll
  IN
  /\ tk.op = "save" /\ tk.pc = "ensure"
  /\ IF out = "ok" /\ tk.exists
       THEN /\ kmTasks' = [kmTasks EXCEPT ![t].pc = "embed"]
            /\ qdrant' = qdrant
       ELSE /\ kmTasks' = [kmTasks EXCEPT ![t].pc = "create",
                 ![t].cOut = IF out # "ok" THEN "error"
                             ELSE IF qdrant[c].exists THEN "conflict"
                             ELSE "ok"]
            /\ qdrant' = IF out = "ok" /\ ~qdrant[c].exists
                           THEN [qdrant EXCEPT ![c].exists = TRUE]
                           ELSE qdrant
  /\ UNCHANGED << now, ingests, kbCalls, kbOps, split, kmDocs, qclient >>
  /\ UNCHANGED << socks, users, owners, messagesBuffer, metadataBuffer,
                  chats, aiState, emitted, tasks, lastReset, events, Ghosts,
                  rag, Aux >>

\* knowledgeManager.js 72-80, 98: createCollection returned or threw
SaveCreated(t) ==
  LET tk == kmTasks[t]
  IN
  /\ tk.op = "save" /\ tk.pc = "create"
  /\ kmTasks' = [kmTasks EXCEPT
                   ![t].pc = IF tk.cOut = "ok" THEN "embed" ELSE "thrown"]
  /\ UNCHANGED << now, qdrant, ingests, kbCalls, kbOps, split, kmDocs,
                  qclient >>
  /\ UNCHANGED << socks, users, owners, messagesBuffer, metadataBuffer,
                  chats, aiState, emitted, tasks, lastReset, events, Ghosts,
                  rag, Aux >>

\* knowledgeManager.js 98-125: the embedding returned; the document is
\* updated (no upsert) or inserted
SaveEmbedded(t, out, mOut) ==
  LET tk == kmTasks[t]
      doc == [kind |-> tk.kind, id |-> IF tk.id = 0 THEN t ELSE tk.id,
              ownerId |-> tk.ownerId]
  IN
  /\ tk.op = "save" /\ tk.pc = "embed"
  /\ IF out # "ok"
       THEN /\ kmTasks' = [kmTasks EXCEPT ![t].pc = "thrown"]
            /\ kmDocs' = kmDocs
       ELSE /\ kmTasks' = [kmTasks EXCEPT ![t].pc = "mongo",
                                          ![t].mOut = mOut,
                                          ![t].id = doc.id]
            /\ kmDocs' = IF mOut = "ok" /\ tk.id = 0
                           THEN kmDocs \cup {doc} ELSE kmDocs
  /\ UNCHANGED << now, qdrant, ingests, kbCalls, kbOps, split, qclient >>
  /\ UNCHANGED << socks, users, owners, messagesBuffer, metadataBuffer,
                  chats, aiState, emitted, tasks, lastReset, events, Ghosts,
                  rag, Aux >>

\* knowledgeManager.js 127-144: the write returned; the point of the entry
\* is upserted
SaveWritten(t, qOut) ==
  LET tk == kmTasks[t]
      c == tk.coll
      point == [id |-> DocPointId(tk.kind, tk.id),
                payload |-> [type |-> tk.kind, id |-> tk.id,
                             ownerId |-> tk.ownerId,
                             text |-> EntryText(tk.kind, tk.id)],
                writer |-> tk.ownerId, task |-> 0, idx |-> 0]
      sent == tk.mOut = "ok" /\ qOut = "ok" /\ qdrant[c].exists
  IN
  /\ tk.op = "save" /\ tk.pc = "mongo"
  /\ tk.mOut # "ok" => qOut = "ok"
  /\ kmTasks' = [kmTasks EXCEPT
       ![t].pc = IF tk.mOut = "ok" THEN "upsert" ELSE "thrown",
       ![t].qCalled = (tk.mOut = "ok"),
       ![t].qOut = IF tk.mOut # "ok" THEN None
                   ELSE IF qOut # "ok" THEN "error"
                   ELSE IF qdrant[c].exists THEN "ok" ELSE "notFound"]
  /\ qdrant' = IF sent
                 THEN [qdrant EXCEPT ![c].points = Upsert(@, << point >>)]
                 ELSE qdrant
  /\ UNCHANGED << now, ingests, kbCalls, kbOps, split, kmDocs, qclient >>
  /\ UNCHANGED << socks, users, owners, messagesBuffer, metadataBuffer,
                  chats, aiState, emitted, tasks, lastReset, events, Ghosts,
                  rag, Aux >>

\* knowledgeManager.js 144-151: the upsert returned or threw
SaveDone(t) ==
  LET tk == kmTasks[t]
  IN
  /\ tk.op = "save" /\ tk.pc = "upsert"
  /\ kmTasks' = [kmTasks EXCEPT
                   ![t].pc = IF tk.qOut = "ok" THEN "done" ELSE "thrown"]
  /\ UNCHANGED << now, qdrant, ingests, kbCalls, kbOps, split, kmDocs,
                  qclient >>
  /\ UNCHANGED << socks, users, owners, messagesBuffer, metadataBuffer,
                  chats, aiState, emitted, tasks, lastReset, events, Ghosts,
                  rag, Aux >>

\* the point of the entry is in the collection of the owner
VectorOf(ownerId, kind, id) ==
  {p \in qdrant[CollectionName(ownerId)].points :
     p.id = DocPointId(kind, id)}

\* knowledgeManager.js 177-184, 298-305: a delete arrives; deleteOne of the
\* document of this id and owner is sent
DeleteEntry(w, ownerId, kind, id, mOut) ==
  /\ kbOps < MaxKbOps
  /\ id \in {kmTasks[t].id : t \in KmIds} \ {0}
  /\ kbOps' = kbOps + 1
  /\ kmDocs' = IF mOut = "ok"
                 THEN kmDocs \ {[kind |-> kind, id |-> id,
                                 ownerId |-> ownerId]}
                 ELSE kmDocs
  /\ kmTasks' = Append(kmTasks,
       [KmTask("delete", w, ownerId, kind, id) EXCEPT
          !.pc = "mdel", !.mOut = mOut])
  /\ UNCHANGED << now, qdrant, ingests, kbCalls, split, qclient >>
  /\ UNCHANGED << socks, users, owners, messagesBuffer, metadataBuffer,
                  chats, aiState, emitted, tasks, lastReset, events, Ghosts,
                  rag, Aux >>

\* knowledgeManager.js 188, 309: qdrantClient is used as it is; it is null
\* until initClients ran in this worker (15-30)
ClientReady(w) == qclient[w]

\* a delete that fails when the store fails
VectorDeleteFailed_Rethrow(tk) == [tk EXCEPT !.pc = "thrown"]

\* knowledgeManager.js 192-197, 313-318: the inner catch logs a warning
\* and the delete returns success
VectorDeleteFailed(tk) == [tk EXCEPT !.pc = "done", !.warned = TRUE]

\* knowledgeManager.js 184-201, 305-322: deleteOne returned or threw; the
\* point of the entry is deleted from the collection of the owner, and a
\* failure to call the store is caught at once
DeleteMongoReturned(t, qOut) ==
  LET tk == kmTasks[t]
      c == tk.coll
      called == tk.mOut = "ok" /\ ClientReady(tk.w)
      removed == called /\ qOut = "ok" /\ qdrant[c].exists
  IN
  /\ tk.op = "delete" /\ tk.pc = "mdel"
  /\ ~called => qOut = "ok"
  /\ qdrant' = IF removed
       THEN [qdrant EXCEPT ![c].points =
               {p \in @ : p.id # DocPointId(tk.kind, tk.id)}]
       ELSE qdrant
  /\ kmTasks' = [kmTasks EXCEPT ![t] =
       IF tk.mOut # "ok" THEN [tk EXCEPT !.pc = "thrown"]
       ELSE IF ~called
         THEN [VectorDeleteFailed(tk) EXCEPT
                 !.vecLeft = VectorOf(tk.ownerId, tk.kind, tk.id) # {}]
       ELSE [tk EXCEPT !.pc = "qdel", !.qCalled = TRUE,
               !.qOut = IF qOut # "ok" THEN "error"
                        ELSE IF qdrant[c].exists THEN "ok"
                        ELSE "notFound"]]
  /\ UNCHANGED << now, ingests, kbCalls, kbOps, split, kmDocs, qclient >>
  /\ UNCHANGED << socks, users, owners, messagesBuffer, metadataBuffer,
                  chats, aiState, emitted, tasks, lastReset, events, Ghosts,
                  rag, Aux >>

\* knowledgeManager.js 187-197, 308-318: the delete of the point returned
\* or threw
DeleteVectorReturned(t) ==
  LET tk == kmTasks[t]
      left == VectorOf(tk.ownerId, tk.kind, tk.id) # {}
  IN
  /\ tk.op = "delete" /\ tk.pc = "qdel"
  /\ kmTasks' = [kmTasks EXCEPT ![t] =
       IF tk.qOut = "ok" THEN [tk EXCEPT !.pc = "done", !.vecLeft = left]
       ELSE [VectorDeleteFailed(tk) EXCEPT !.vecLeft = left]]
  /\ UNCHANGED << now, qdrant, ingests, kbCalls, kbOps, split, kmDocs,
                  qclient >>
  /\ UNCHANGED << socks, users, owners, messagesBuffer, metadataBuffer,
                  chats, aiState, emitted, tasks, lastReset, events, Ghosts,
                  rag, Aux >>

\* the entries of one owner are saved by either worker and deleted by
\* either worker, for their owner or for another one
NextKnowledge ==
  \/ \E w \in Workers, k \in Kinds : SaveEntry(w, "A", k, 0)
  \/ \E t \in KmIds, out \in {"ok", "error"} : SaveEnsured(t, out)
  \/ \E t \in KmIds : SaveCreated(t)
  \/ \E t \in KmIds, out \in {"ok", "error"}, mOut \in {"ok", "error"} :
        SaveEmbedded(t, out, mOut)
  \/ \E t \in KmIds, qOut \in {"ok", "error"} : SaveWritten(t, qOut)
  \/ \E t \in KmIds : SaveDone(t)
  \/ \E w \in Workers, o \in Owners, k \in Kinds, id \in DocIds,
        mOut \in {"ok", "error"} :
        DeleteEntry(w, o, k, id, mOut)
  \/ \E t \in KmIds, qOut \in {"ok", "error"} : DeleteMongoReturned(t, qOut)
  \/ \E t \in KmIds : DeleteVectorReturned(t)

SpecKnowledge == Init /\ [][NextKnowledge]_vars

\* the knowledge store as all its users see it: uploads, saves of entries,
\* and search, stats and delete of an owner's collection
NextStore ==
  \/ \E o \in Owners : StoreTextResource(o, 100, EmptyMd)
  \/ \E t \in IngestIds, out \in {"ok", "error"} : EnsureListed(t, out)
  \/ \E t \in IngestIds : CollectionCreated(t)
  \/ \E t \in IngestIds, out \in {"ok", "error"} : ChunkEmbedded(t, out)
  \/ \E t \in IngestIds : UpsertReturned(t)
  \/ \E o \in Owners, k \in Kinds : SaveEntry(1, o, k, 0)
  \/ \E t \in KmIds, out \in {"ok", "error"} : SaveEnsured(t, out)
  \/ \E t \in KmIds : SaveCreated(t)
  \/ \E t \in KmIds, out \in {"ok", "error"} : SaveEmbedded(t, out, "ok")
  \/ \E t \in KmIds, qOut \in {"ok", "error"} : SaveWritten(t, qOut)
  \/ \E t \in KmIds : SaveDone(t)
  \/ \E o \in Owners, out \in {"ok", "error"} : DeleteOwnerResources(o, out)
  \/ \E o \in Owners, out \in {"ok", "error"} : GetOwnerResourceStats(o, out)
  \/ \E o \in Owners, out \in {"ok", "error"} : SearchOwnerKnowledge(o, out)

SpecStore == Init /\ [][NextStore]_vars

\* the collections the operations of the knowledge base went to
UsedCollections(ownerId) ==
  {ingests[t].coll : t \in {u \in IngestIds : ingests[u].ownerId = ownerId}}
    \cup
  {kmTasks[t].coll : t \in {u \in KmIds : kmTasks[u].ownerId = ownerId}}
    \cup
  {kbCalls[i].coll :
     i \in {j \in 1..Len(kbCalls) : kbCalls[j].ownerId = ownerId}}

\* C27: the collection of an owner is named by an injective function of
\* the owner's id, the same for uploads, saves of entries, search, stats
\* and delete; a collection holds only records written for its owner, and
\* a search for one owner returns no record written for another.
C27_OwnerIsolation ==
  /\ \A a, b \in Owners : CollectionName(a) = CollectionName(b) => a = b
  /\ \A o \in Owners :
       /\ UsedCollections(o) \subseteq {CollectionName(o)}
       /\ \A p \in qdrant[CollectionName(o)].points : p.writer = o
  /\ \A i \in 1..Len(kbCalls) :
       kbCalls[i].op = "search" =>
         \A h \in kbCalls[i].hits : h.writer = kbCalls[i].ownerId

\* a search for one owner returned that owner's records while the
\* collection of another owner held records too
C27_Witness ==
  \E i \in 1..Len(kbCalls) :
    /\ kbCalls[i].op = "search" /\ kbCalls[i].hits # {}
    /\ \E c \in Collections \ {kbCalls[i].coll} : qdrant[c].points # {}

Deletes == {t \in KmIds : kmTasks[t].op = "delete"}
\* the document a delete is about
DocOf(tk) == [kind |-> tk.kind, id |-> tk.id, ownerId |-> tk.ownerId]

\* C29: when deleteQnA or deleteProduct returns success and the vector
\* store did not fail, the collection of the owner holds no point of the
\* entry, whatever ran in the process before the delete.
C29_DeleteRemovesVector ==
  \A t \in Deletes :
    (kmTasks[t].pc = "done" /\ kmTasks[t].qOut # "error") =>
      ~kmTasks[t].vecLeft

\* C30: a delete whose deleteOne failed fails and sends nothing to the
\* vector store; a delete whose deleteOne succeeded returns success even
\* when the delete of the point failed or was not sent: the failure is
\* logged as a warning and the document stays deleted.
C30_VectorDeleteBestEffort ==
  /\ [](\A t \in Deletes :
          LET tk == kmTasks[t]
          IN
          /\ (tk.mOut # "ok" /\ tk.pc # "mdel") =>
               tk.pc = "thrown" /\ ~tk.qCalled /\ ~tk.warned
          /\ (tk.mOut = "ok" /\ tk.pc \notin {"mdel", "qdel"}) =>
               /\ tk.pc = "done"
               /\ tk.warned <=> tk.qOut # "ok"
               /\ DocOf(tk) \notin kmDocs)
  /\ [][\A t \in Deletes, qOut \in {"ok", "error"} :
          (DeleteMongoReturned(t, qOut) /\ kmTasks[t].mOut # "ok") =>
            qdrant' = qdrant]_vars

\* one delete failed at deleteOne and left the point and the document of
\* the entry; another deleted the document, failed at the vector store,
\* logged the warning and returned success with the point left
C30_Witness ==
  \E t1, t2 \in Deletes :
    /\ kmTasks[t1].pc = "thrown" /\ kmTasks[t1].mOut = "error"
    /\ kmTasks[t2].pc = "done" /\ kmTasks[t2].qCalled
    /\ kmTasks[t2].qOut = "error" /\ kmTasks[t2].warned
    /\ kmTasks[t2].vecLeft
    /\ DocOf(kmTasks[t2]) \notin kmDocs

\* ======================================================== Website URL
\* POST /api/knowledge/website and GET /api/knowledge/website/:ownerId of
\* index.js.  A request body may lack ownerId or websiteUrl (written
\* None); a response is its HTTP status and, for a GET, the companyWebsite
\* it carries.
MaxWebOps == 3      \* requests of the website endpoints in a behaviour
Urls == {"https://a", "https://b"}
\* the empty value of the GET response
Empty == ""
\* values falsy in JavaScript: undefined or null (None) and ''
Falsy(v) == v \in {None, Empty}

\* index.js 29-37, 774, 792: `db` is declared inside initMongo only, so
\* no binding of that name is in the scope of the two handlers
dbInScope == FALSE

WebCall(op, ownerId, url, out, status, data) ==
  [op |-> op, ownerId |-> ownerId, url |-> url, out |-> out,
   status |-> status, data |-> data]

\* index.js 767-786: POST /api/knowledge/website
SetWebsite(ownerId, websiteUrl, out) ==
  /\ Len(webCalls) < MaxWebOps
  /\ IF ownerId = None
       THEN /\ webCalls' = Append(webCalls,
                             WebCall("set", ownerId, websiteUrl, out, 400,
                                     None))
            /\ knowledgebase' = knowledgebase
       ELSE IF ~dbInScope \/ out # "ok"
         THEN /\ webCalls' = Append(webCalls,
                               WebCall("set", ownerId, websiteUrl, out, 500,
                                       None))
              /\ knowledgebase' = knowledgebase
         ELSE /\ webCalls' = Append(webCalls,
                               WebCall("set", ownerId, websiteUrl, out, 200,
                                       None))
              /\ knowledgebase' = [knowledgebase EXCEPT ![ownerId] =
                   [has |-> TRUE, companyWebsite |-> websiteUrl]]
  /\ UNCHANGED << split, now, qdrant, ingests, kbCalls, kbOps, kmDocs,
                  kmTasks, qclient, aiReads, joined >>
  /\ UNCHANGED << socks, users, owners, messagesBuffer, metadataBuffer,
                  chats, aiState, emitted, tasks, lastReset, events, Ghosts,
                  rag >>

\* index.js 796-799: ownerInfo?.companyWebsite || ''
CompanyWebsite(doc) ==
  IF ~doc.has \/ Falsy(doc.companyWebsite) THEN Empty
  ELSE doc.companyWebsite

\* index.js 788-805: GET /api/knowledge/website/:ownerId
GetWebsite(ownerId, out) ==
  /\ Len(webCalls) < MaxWebOps
  /\ webCalls' = Append(webCalls,
       IF ~dbInScope \/ out # "ok"
         THEN WebCall("get", ownerId, None, out, 500, None)
         ELSE WebCall("get", ownerId, None, out, 200,
                      CompanyWebsite(knowledgebase[ownerId])))
  /\ UNCHANGED << split, now, qdrant, ingests, kbCalls, kbOps, kmDocs,
                  kmTasks, qclient, knowledgebase, aiReads, joined >>
  /\ UNCHANGED << socks, users, owners, messagesBuffer, metadataBuffer,
                  chats, aiState, emitted, tasks, lastReset, events, Ghosts,
                  rag >>

NextWebsite ==
  \/ \E o \in Owners \cup {None}, url \in Urls \cup {None, Empty},
        out \in {"ok", "error"} : SetWebsite(o, url, out)
  \/ \E o \in Owners, out \in {"ok", "error"} : GetWebsite(o, out)

SpecWebsite == Init /\ [][NextWebsite]_vars

\* the requests of kind op for owner o during which MongoDB answered
WebOf(op, o) ==
  {i \in 1..Len(webCalls) :
     /\ webCalls[i].op = op /\ webCalls[i].ownerId = o
     /\ webCalls[i].out = "ok"}

\* C31: a GET that follows a POST of a URL for the same owner, with no
\* other POST for that owner in between and the database answering,
\* returns that URL (so a later POST replaces the earlier value), and a
\* GET for an owner no POST was made for returns the empty value, not an
\* error.
C31_WebsiteRoundTrip ==
  \A o \in Owners :
    \A j \in WebOf("get", o) :
      /\ (\A i \in WebOf("set", o) : i > j) =>
           webCalls[j].status = 200 /\ webCalls[j].data = Empty
      /\ \A i \in WebOf("set", o) :
           (/\ i < j /\ webCalls[i].url \in Urls
            /\ \A k \in WebOf("set", o) : k <= i \/ k > j) =>
             /\ webCalls[i].status = 200
             /\ webCalls[j].status = 200
             /\ webCalls[j].data = webCalls[i].url

\* ================================================ takeover and AI replies
\* the AI messages in the conversation of user u
AiEntries(u) == {i \in 1..Len(Conv(u)) : Conv(u)[i].from = "ai"}
\* the AI messages delivered to a connection of user u
AiDelivered(u) ==
  {e \in emitted : e.from = "ai" /\ e.uid = u /\ e.to \in UserSocks(u)}

\* C32: while an owner message is recorded for a user and no reset has
\* followed it, no step appends an AI message to the user's conversation
\* or delivers one to the user, the answer to a user message whose state
\* check preceded the owner message included.
C32_NoAiOnceOwnerRecorded ==
  [][\A u \in Users :
       (ownerRec[u] /\ ownerRec'[u]) =>
         /\ Cardinality(AiEntries(u)') = Cardinality(AiEntries(u))
         /\ AiDelivered(u)' = AiDelivered(u)]_vars

\* ============================================================ state query
\* shouldAiRespond as processUserMessage calls it for an inbound user
\* message (index.js 414 -> storeVecDb.js 150), with the collection
\* 'ai_chat_state' connected or not and the read succeeding or failing.
MaxReads == 2       \* calls of shouldAiRespond in a behaviour
Conns == {1, 2}     \* connections the inbound messages arrive on

\* a query that answers from the first read made for the connection
StateRead_Cached(c, u) ==
  LET first == {i \in 1..Len(aiReads) :
                  aiReads[i].conn = c /\ aiReads[i].uid = u}
  IN IF first = {} THEN aiState[u]
     ELSE aiReads[CHOOSE i \in first : \A j \in first : i <= j].stored

\* storeVecDb.js 60: findOne({ userId }) on every call; the function keeps
\* nothing between calls
StateRead(c, u) == aiState[u]

\* storeVecDb.js 56-73: true when the collection is not connected, when
\* the read fails and when no record exists; else aiActive !== false
AiActiveAnswer(connected, out, state) ==
  IF ~connected THEN TRUE
  ELSE IF out # "ok" THEN TRUE
  ELSE IF state = "absent" THEN TRUE
  ELSE state # "false"

\* index.js 414 -> storeVecDb.js 150, 56-73: the state check of a user
\* message that arrived on connection c
CheckAiState(c, u, connected, out) ==
  /\ Len(aiReads) < MaxReads
  /\ aiReads' = Append(aiReads,
       [conn |-> c, uid |-> u, connected |-> connected, out |-> out,
        stored |-> aiState[u],
        result |-> AiActiveAnswer(connected, out, StateRead(c, u))])
  /\ UNCHANGED << split, now, qdrant, ingests, kbCalls, kbOps, kmDocs,
                  kmTasks, qclient, knowledgebase, webCalls, joined >>
  /\ UNCHANGED << socks, users, owners, messagesBuffer, metadataBuffer,
                  chats, aiState, emitted, tasks, lastReset, events, Ghosts,
                  rag >>

\* storeVecDb.js 80-98, called by handleAdminMessage (false) and by
\* resetAiForUser (true)
StoreAiState(u, isActive) ==
  /\ aiState' = setAiState(aiState, u, isActive)
  /\ UNCHANGED << socks, users, owners, messagesBuffer, metadataBuffer,
                  chats, emitted, tasks, lastReset, events, Ghosts, rag,
                  Knowledge >>

NextAiState ==
  \/ \E c \in Conns, u \in Users, connected \in BOOLEAN,
        out \in {"ok", "error"} : CheckAiState(c, u, connected, out)
  \/ \E u \in Users, b \in BOOLEAN : StoreAiState(u, b)

SpecAiState == Init /\ [][NextAiState]_vars

\* C33 as stated: a state check answers the stored aiActive whenever a
\* record exists, and answers true without a record.
C33_StoredStateReturned ==
  \A i \in 1..Len(aiReads) :
    IF aiReads[i].stored = "absent" THEN aiReads[i].result
    ELSE aiReads[i].result = (aiReads[i].stored = "true")

\* C33, amended: a state check whose read succeeded answers the aiActive
\* stored at that moment when a record exists and true when none exists,
\* whatever earlier checks on the same connection answered; a check made
\* while the collection is not connected or whose read failed answers
\* true, record or not.
C33_StoredStateReturnedAmended ==
  \A i \in 1..Len(aiReads) :
    IF ~aiReads[i].connected \/ aiReads[i].out # "ok" THEN aiReads[i].result
    ELSE IF aiReads[i].stored = "absent" THEN aiReads[i].result
    ELSE aiReads[i].result = (aiReads[i].stored = "true")

\* two checks for one user on one connection, both read from the store:
\* the first answered true, the second false
C33_Witness ==
  /\ Len(aiReads) = 2
  /\ aiReads[1].conn = aiReads[2].conn /\ aiReads[1].uid = aiReads[2].uid
  /\ aiReads[1].connected /\ aiReads[1].out = "ok"
  /\ aiReads[2].connected /\ aiReads[2].out = "ok"
  /\ aiReads[1].result /\ ~aiReads[2].result

\* ====================================================== generated text
\* C34: when the completion service returned a text for the message, the
\* message processUserMessage returns carries that text and no error flag,
\* whether the append of the AI message to the conversation succeeded or
\* failed.
C34_GeneratedTextKept ==
  (rag.pc = "replied" /\ rag.result.has) =>
    /\ rag.reply.has /\ rag.reply.from = "ai"
    /\ rag.reply.text = rag.gText /\ rag.gText \in Texts
    /\ ~rag.reply.error

\* ==================================================== metadata updates
\* this step is the arrival of a setMetadata call (socket or HTTP) for
\* user u that carries no ownerId
MetadataWithoutOwner(u) ==
  /\ Len(tasks') = Len(tasks) + 1
  /\ tasks'[Len(tasks')].kind \in {"meta", "hmeta"}
  /\ tasks'[Len(tasks')].uid = u
  /\ tasks'[Len(tasks')].ownerId = None

\* C35: a setMetadata call without ownerId, by socket or by HTTP, leaves
\* the owner of the user as it was, in the metadata buffer and in the
\* document of the user; a contact field it does not carry stays too.
C35_MetadataKeepsOwner ==
  [][\A u \in Users :
       MetadataWithoutOwner(u) =>
         /\ chats'[u].ownerId = chats[u].ownerId
         /\ metadataBuffer'[u].ownerId = metadataBuffer[u].ownerId
         /\ tasks'[Len(tasks')].name = None =>
              chats'[u].username = chats[u].username]_vars

\* ====================================================== owner messages
\* the socket ids
ChannelIds == {SockNames[i] : i \in 1..Len(SockNames)}
\* this step records an owner message in the conversation of user u
OwnerMessageRecorded(u) ==
  \E t \in TaskIds :
    /\ tasks[t].kind = "omsg" /\ tasks[t].uid = u
    /\ tasks[t].pc = "deact" /\ tasks'[t].pc = "oAppend"

\* C36: when an owner message is recorded for a user assigned to an
\* owner, whichever owner connection sent it, the ownerId of the user's
\* document stays that owner; and the ownerId of a document is never a
\* socket id.
C36_OwnerMessageKeepsAssignment ==
  [][\A u \in Users :
       OwnerMessageRecorded(u) =>
         /\ chats[u].ownerId \in Owners =>
              chats'[u].ownerId = chats[u].ownerId
         /\ chats'[u].ownerId \notin ChannelIds]_vars

\* ================================================================ rooms
\* index.js 216-220: the owner 'joinUser' handler
JoinUser(s, u) ==
  /\ events < MaxEvents
  /\ socks[s].role = "owner" /\ socks[s].live
  /\ joined' = IF users[u] # 0 THEN joined \cup {<< s, users[u] >>}
               ELSE joined
  /\ events' = events + 1
  /\ lastReset' = None
  /\ UNCHANGED << split, now, qdrant, ingests, kbCalls, kbOps, kmDocs,
                  kmTasks, qclient, knowledgebase, webCalls, aiReads >>
  /\ UNCHANGED << socks, users, owners, messagesBuffer, metadataBuffer,
                  chats, aiState, emitted, tasks, Ghosts, rag >>

\* the message paths of the router with joinUser, one user
NextJoin ==
  \/ \E o \in Owners \cup {None} : OwnerConnect(o)
  \/ \E u \in OneUser, d \in Owners \cup {None} : UserConnect(u, d)
  \/ \E t \in TaskIds : UserConnResolved(t)
  \/ \E t \in TaskIds : UserConnNotify(t)
  \/ \E s \in SockIds, u \in OneUser : JoinUser(s, u)
  \/ \E s \in SockIds, u \in OneUser : OwnerMessage(s, u)
  \/ \E t \in TaskIds : OwnerMsgRecord(t)
  \/ \E t \in TaskIds : OwnerMsgNotify(t)
  \/ \E t \in TaskIds : OwnerMsgNotifyResolved(t)
  \/ \E s \in SockIds : UserMessage(s)
  \/ \E t \in TaskIds : UMsgOwnerResolved(t)
  \/ \E t \in TaskIds : UMsgMetaLoaded(t)
  \/ \E t \in TaskIds : UMsgAiCheck(t)
  \/ \E t \in TaskIds : UMsgAiHistory(t)
  \/ \E t \in TaskIds, g \in {"ok", "fail"} : UMsgAiGenerated(t, g)
  \/ \E t \in TaskIds : UMsgAiStored(t)

SpecJoin == Init /\ [][NextJoin]_vars

\* C37: a message emitted to the channel of user U (an owner reply or an
\* AI response) is delivered to connections of U and to no owner
\* connection other than one of the owner U is assigned to, whatever
\* joinUser requests were made.
C37_UserChannelPrivate ==
  [][\A e \in emitted' \ emitted :
       e.addr \in Users =>
         \/ socks[e.to].role = "user" /\ socks[e.to].uid = e.addr
         \/ /\ socks[e.to].role = "owner"
            /\ socks[e.to].owner # None
            /\ socks[e.to].owner = chats'[e.addr].ownerId]_vars

\* ==================================================== completion request
\* aiResponse.js 143-146: the role of a history turn
RoleOf(m) == IF m.from = "user" THEN "user" ELSE "assistant"

\* aiResponse.js 143-153: the messages of the completion request of user
\* message t after the system message: the last 10 history turns, then
\* the current message
CompletionMessages(t) ==
  [i \in 1..Len(SliceLast(tasks[t].hist, 10)) |->
     [role |-> RoleOf(SliceLast(tasks[t].hist, 10)[i]),
      id |-> SliceLast(tasks[t].hist, 10)[i].id]]
  \o << [role |-> "user", id |-> t] >>

\* the user messages whose completion request was built
Requested ==
  {t \in TaskIds : /\ tasks[t].kind = "umsg" /\ tasks[t].aiOn
                   /\ tasks[t].pc \in {"aiHist", "aiStore", "done"}}

\* C38: the completion request of a user message holds that message once:
\* the history turns, at most 10, do not hold it, and the request ends
\* with it.
C38_QueryOnce ==
  \A t \in Requested :
    LET msgs == CompletionMessages(t)
    IN
    /\ Len(msgs) <= 11
    /\ msgs[Len(msgs)] = [role |-> "user", id |-> t]
    /\ Cardinality({i \in 1..Len(msgs) :
                      msgs[i].role = "user" /\ msgs[i].id = t}) = 1

\* ============================================================== buffers
\* user u has a registered connection that is open
Registered(u) == users[u] # 0 /\ socks[users[u]].live

\* C39: the message buffer and the metadata buffer hold an entry only for
\* a user with a live registration.
C39_BuffersOnlyForConnected ==
  \A u \in Users :
    (messagesBuffer[u].has \/ metadataBuffer[u].has) => Registered(u)

\* ============================================== entries and their vectors
\* saves of new entries and of entries by id, and deletes, in one worker
NextEntries ==
  \/ \E o \in Owners, k \in Kinds, id \in {0} \cup DocIds :
        SaveEntry(1, o, k, id)
  \/ \E t \in KmIds, out \in {"ok", "error"} : SaveEnsured(t, out)
  \/ \E t \in KmIds : SaveCreated(t)
  \/ \E t \in KmIds, out \in {"ok", "error"}, mOut \in {"ok", "error"} :
        SaveEmbedded(t, out, mOut)
  \/ \E t \in KmIds, qOut \in {"ok", "error"} : SaveWritten(t, qOut)
  \/ \E t \in KmIds : SaveDone(t)
  \/ \E o \in Owners, k \in Kinds, id \in DocIds, mOut \in {"ok", "error"} :
        DeleteEntry(1, o, k, id, mOut)
  \/ \E t \in KmIds, qOut \in {"ok", "error"} : DeleteMongoReturned(t, qOut)
  \/ \E t \in KmIds : DeleteVectorReturned(t)

SpecEntries == Init /\ [][NextEntries]_vars

\* the points of entries in the collection of owner o
EntryPoints(o) ==
  {p \in qdrant[CollectionName(o)].points : "type" \in DOMAIN p.payload}

\* every save and delete so far has returned success, and none of them
\* had its vector operation fail or skipped
AllSucceeded ==
  \A t \in KmIds :
    /\ kmTasks[t].pc = "done"
    /\ ~kmTasks[t].warned
    /\ ~kmTasks[t].vecLeft

\* C40: once every save and delete so far has returned success, each
\* point of an entry in the collection of an owner is the point of a
\* document of that owner, and a document has at most one point; so a
\* save with an _id that is no entry of the owner leaves no point.
C40_VectorsMatchEntries ==
  AllSucceeded =>
    \A o \in Owners :
      /\ \A p \in EntryPoints(o) :
           [kind |-> p.payload.type, id |-> p.payload.id, ownerId |-> o]
             \in kmDocs
      /\ \A p, q \in EntryPoints(o) :
           (p.payload.type = q.payload.type /\ p.payload.id = q.payload.id)
             => p = q

====
